---- MODULE Spec2Model ----
(***************************************************************************)
(* The versioned edit orchestration worker of floorplan-react              *)
(* (src/src/worker.ts): the D1 tables prompt_sessions and image_versions,  *)
(* the Cloudflare Images store, and the request handlers handleUpload,     *)
(* handleEdit, handleRenderAngle, handleHistory and handleView.  Every     *)
(* handler is cut at its awaits on the database, the image store and the   *)
(* generation oracle, so that requests interleave as they do in a Worker.  *)
(***************************************************************************)
EXTENDS Integers, Sequences, FiniteSets, TLC

(***************************************************************************)
(* Bounds of the model.                                                    *)
(***************************************************************************)
\* requests of one behaviour of Spec
MaxRequests == 3
\* requests in flight at the same time in Spec
MaxInFlight == 2
\* requests of one behaviour that an upstream service or the database fails
MaxFaults == 1

(***************************************************************************)
(* Values.                                                                 *)
(***************************************************************************)
\* null / undefined of the source; identifiers are positive
NULL == 0
\* an identifier that no table and no store ever holds
UnknownId == NULL - 1
\* the system prompt, env.SYSTEM_PROMPT ?? DEFAULT_SYSTEM_PROMPT
DEFAULT_SYSTEM_PROMPT == "system prompt"
\* env.GEMINI_MODEL ?? DEFAULT_MODEL
DEFAULT_MODEL == "gemini-2.5-flash-image-preview"
\* null / undefined where the source holds a string
Undefined == "undefined"

\* the value of a JavaScript condition on a string: null, undefined and "" are falsy
Truthy(x) == x # Undefined /\ x # ""

\* SHA-256 as an injective function of the text
hashString(input) == <<"sha256", input>>

SUPPORTED_ASPECT_RATIOS == {"1:1", "3:2", "4:3", "4:5", "16:9", "9:16", "2:3"}

Range(s) == {s[i] : i \in 1..Len(s)}

(***************************************************************************)
(* Strings.  A string of the program is a TLA+ string; Chars gives the     *)
(* characters of every string the model uses, for the functions that look  *)
(* inside one (toLowerCase, includes, trim).                               *)
(***************************************************************************)
KnownTexts == {"north", "patio", "south", "east", "west", "stairs", "entry", "foyer", "kitchen", "living", "exterior", "Patio view", "add skylight", "modern kitchen", "commentary", "",
               "WEST of the patio", "exterior north", "Foyer and living", " Patio ", "Patio", "   ",
               "render the patio view", "add a skylight"}

Chars(s) ==
    CASE s = "north" -> <<"n", "o", "r", "t", "h">>
      [] s = "patio" -> <<"p", "a", "t", "i", "o">>
      [] s = "south" -> <<"s", "o", "u", "t", "h">>
      [] s = "east" -> <<"e", "a", "s", "t">>
      [] s = "west" -> <<"w", "e", "s", "t">>
      [] s = "stairs" -> <<"s", "t", "a", "i", "r", "s">>
      [] s = "entry" -> <<"e", "n", "t", "r", "y">>
      [] s = "foyer" -> <<"f", "o", "y", "e", "r">>
      [] s = "kitchen" -> <<"k", "i", "t", "c", "h", "e", "n">>
      [] s = "living" -> <<"l", "i", "v", "i", "n", "g">>
      [] s = "exterior" -> <<"e", "x", "t", "e", "r", "i", "o", "r">>
      [] s = "Patio view" -> <<"P", "a", "t", "i", "o", " ", "v", "i", "e", "w">>
      [] s = "add skylight" -> <<"a", "d", "d", " ", "s", "k", "y", "l", "i", "g", "h", "t">>
      [] s = "modern kitchen" -> <<"m", "o", "d", "e", "r", "n", " ", "k", "i", "t", "c", "h", "e", "n">>
      [] s = "commentary" -> <<"c", "o", "m", "m", "e", "n", "t", "a", "r", "y">>
      [] s = "WEST of the patio" -> <<"W", "E", "S", "T", " ", "o", "f", " ", "t", "h", "e", " ", "p", "a", "t", "i", "o">>
      [] s = "exterior north" -> <<"e", "x", "t", "e", "r", "i", "o", "r", " ", "n", "o", "r", "t", "h">>
      [] s = "Foyer and living" -> <<"F", "o", "y", "e", "r", " ", "a", "n", "d", " ", "l", "i", "v", "i", "n", "g">>
      [] s = " Patio " -> <<" ", "P", "a", "t", "i", "o", " ">>
      [] s = "Patio" -> <<"P", "a", "t", "i", "o">>
      [] s = "   " -> <<" ", " ", " ">>
      [] s = "render the patio view" -> <<"r", "e", "n", "d", "e", "r", " ", "t", "h", "e", " ", "p", "a", "t", "i", "o", " ", "v", "i", "e", "w">>
      [] s = "add a skylight" -> <<"a", "d", "d", " ", "a", " ", "s", "k", "y", "l", "i", "g", "h", "t">>
      [] s = "" -> << >>

\* the string with these characters
Text(cs) == CHOOSE s \in KnownTexts : Chars(s) = cs

\* String.prototype.toLowerCase, one character
LowerChar(c) ==
    CASE c = "A" -> "a"
      [] c = "B" -> "b"
      [] c = "C" -> "c"
      [] c = "D" -> "d"
      [] c = "E" -> "e"
      [] c = "F" -> "f"
      [] c = "G" -> "g"
      [] c = "H" -> "h"
      [] c = "I" -> "i"
      [] c = "J" -> "j"
      [] c = "K" -> "k"
      [] c = "L" -> "l"
      [] c = "M" -> "m"
      [] c = "N" -> "n"
      [] c = "O" -> "o"
      [] c = "P" -> "p"
      [] c = "Q" -> "q"
      [] c = "R" -> "r"
      [] c = "S" -> "s"
      [] c = "T" -> "t"
      [] c = "U" -> "u"
      [] c = "V" -> "v"
      [] c = "W" -> "w"
      [] c = "X" -> "x"
      [] c = "Y" -> "y"
      [] c = "Z" -> "z"
      [] OTHER -> c

toLowerCase(cs) == [i \in 1..Len(cs) |-> LowerChar(cs[i])]

\* String.prototype.includes
includes(cs, sub) ==
    \E i \in 0..(Len(cs) - Len(sub)) : SubSeq(cs, i + 1, i + Len(sub)) = sub

Whitespace == {" ", "\t", "\n"}

\* String.prototype.trim
trim(cs) ==
    LET keep == {i \in 1..Len(cs) : cs[i] \notin Whitespace}
        Min(S) == CHOOSE x \in S : \A y \in S : x <= y
        Max(S) == CHOOSE x \in S : \A y \in S : x >= y
    IN IF keep = {} THEN << >> ELSE SubSeq(cs, Min(keep), Max(keep))

\* a faulty table: the keywords in alphabetical order
CAMERA_KEYWORDS_Sorted ==
    << <<"east", "east">>, <<"entry", "entry">>, <<"exterior", "exterior">>,
       <<"foyer", "entry">>, <<"kitchen", "kitchen">>, <<"living", "living">>,
       <<"north", "north">>, <<"patio", "patio">>, <<"south", "south">>,
       <<"stairs", "stairs">>, <<"west", "west">> >>

\* CAMERA_KEYWORDS, in the order Object.entries walks it
CAMERA_KEYWORDS ==
    << <<"north", "north">>, <<"patio", "patio">>, <<"south", "south">>,
       <<"east", "east">>, <<"west", "west">>, <<"stairs", "stairs">>,
       <<"entry", "entry">>, <<"foyer", "entry">>, <<"kitchen", "kitchen">>,
       <<"living", "living">>, <<"exterior", "exterior">> >>

inferCameraAngle(prompt, explicit) ==
    IF Truthy(explicit) /\ trim(Chars(explicit)) # << >>
    THEN Text(trim(Chars(explicit)))
    ELSE LET lower == toLowerCase(Chars(prompt))
             hits == {i \in 1..Len(CAMERA_KEYWORDS) :
                        includes(lower, Chars(CAMERA_KEYWORDS[i][1]))}
         IN IF hits = {} THEN Undefined
            ELSE CAMERA_KEYWORDS[CHOOSE i \in hits : \A j \in hits : i <= j][2]

(***************************************************************************)
(* JSON text of the history column.                                        *)
(***************************************************************************)
\* a JSON text is the value it encodes; any other text has another form
JSONstringify(value) == [form |-> "json", value |-> value]
\* a faulty test: every text passes for JSON, read as far as it goes
WellFormedJSONAlways(text) == TRUE
WellFormedJSON(text) == text.form = "json"
JSONparse(text) == text.value
\* the empty string
EmptyString == [form |-> "", value |-> << >>]

\* one content part, as normalizeParts leaves it: text and inlineData kept,
\* inline_data renamed, every other field dropped
normalizePart(part) ==
    LET inline == IF "inlineData" \in DOMAIN part THEN part.inlineData
                  ELSE IF "inline_data" \in DOMAIN part THEN part.inline_data
                  ELSE Undefined
        keys == (IF "text" \in DOMAIN part THEN {"text"} ELSE {})
                \cup (IF inline # Undefined THEN {"inlineData"} ELSE {})
    IN [k \in keys |-> IF k = "text" THEN part.text ELSE inline]

normalizeParts(parts) == [i \in 1..Len(parts) |-> normalizePart(parts[i])]

parseHistory(history) ==
    IF history = EmptyString THEN << >>
    ELSE IF ~WellFormedJSON(history) THEN << >>
    ELSE LET parsed == JSONparse(history)
         IN [i \in 1..Len(parsed) |->
                [role |-> parsed[i].role, parts |-> normalizeParts(parsed[i].parts)]]

\* the session history cap, trimHistory's maxMessages
maxMessages == 20

\* a faulty trimHistory: history.slice(0, maxMessages), the oldest turns kept
trimHistoryKeepOldest(history) ==
    IF Len(history) <= maxMessages THEN history
    ELSE SubSeq(history, 1, maxMessages)

\* a faulty trimHistory: history.slice(1), one turn dropped when over the cap
trimHistoryByOne(history) ==
    IF Len(history) <= maxMessages THEN history
    ELSE SubSeq(history, 2, Len(history))

trimHistory(history) ==
    IF Len(history) <= maxMessages THEN history
    ELSE SubSeq(history, Len(history) - maxMessages + 1, Len(history))

(***************************************************************************)
(* State.                                                                  *)
(***************************************************************************)
VARIABLES
    prompt_sessions,   \* D1 table prompt_sessions, rows in insertion order
    image_versions,    \* D1 table image_versions, rows in insertion order
    images,            \* Cloudflare Images: image id -> stored bytes
    lastId,            \* identifiers handed out so far (crypto.randomUUID, image ids)
    now,               \* the clock behind CURRENT_TIMESTAMP
    pc,                \* per request: the await it stands at
    body,              \* per request: the request's route and inputs
    previousVersion,   \* per request: handleEdit's previousVersion
    session,           \* per request: handleEdit's session, handleUpload's session values
    aiResponse,        \* per request: what generateImageFromGemini gave
    uploadResult,      \* per request: what uploadToCloudflareImages gave
    versionId,         \* per request: the handler's versionId
    response,          \* per request: the HTTP response
    effects,           \* per request: the writes it has performed so far
    IMAGES,            \* what env.IMAGES of the /edit worker holds: image id -> artifact
    loop               \* per request: the locals of the /edit handler

db == <<prompt_sessions, image_versions>>
store == <<images, lastId, now>>
locals == <<body, previousVersion, session, aiResponse, uploadResult, versionId>>
vars == <<prompt_sessions, image_versions, images, lastId, now, pc, body,
          previousVersion, session, aiResponse, uploadResult, versionId,
          response, effects, IMAGES, loop>>
\* the state of the /edit worker
structured == <<IMAGES, loop>>

Requests == DOMAIN pc

NoVersion == [id |-> NULL, parent_id |-> NULL, base_prompt |-> Undefined,
              chat_id |-> NULL, aspect_ratio |-> Undefined]
NoSession == [id |-> NULL, base_prompt |-> Undefined, system_prompt |-> Undefined,
              base_prompt_hash |-> <<"sha256", Undefined>>, history |-> EmptyString]
NoResponse == [state |-> "none", parts |-> << >>]
NoUpload == [state |-> "none", id |-> NULL]
NoBody == [route |-> "none"]
\* the locals of the /edit handler before it runs
NoLoop == [opSeq |-> 0, planPreviewId |-> NULL, currentId |-> NULL, beforeId |-> NULL,
           resultBytes |-> Undefined, previewId |-> NULL, newImageIds |-> << >>,
           photos |-> << >>, changelog |-> << >>, next |-> 0]
Pending == [status |-> NULL, error |-> "", version_id |-> NULL, versions |-> << >>]

SessionIds == {prompt_sessions[i].id : i \in 1..Len(prompt_sessions)}
VersionIds == {image_versions[i].id : i \in 1..Len(image_versions)}

InitWith(n) ==
    /\ prompt_sessions = << >>
    /\ image_versions = << >>
    /\ images = << >>
    /\ lastId = NULL
    /\ now = 0
    /\ pc = [r \in 1..n |-> "idle"]
    /\ body = [r \in 1..n |-> NoBody]
    /\ previousVersion = [r \in 1..n |-> NoVersion]
    /\ session = [r \in 1..n |-> NoSession]
    /\ aiResponse = [r \in 1..n |-> NoResponse]
    /\ uploadResult = [r \in 1..n |-> NoUpload]
    /\ versionId = [r \in 1..n |-> NULL]
    /\ response = [r \in 1..n |-> Pending]
    /\ effects = [r \in 1..n |-> {}]
    /\ IMAGES = << >>
    /\ loop = [r \in 1..n |-> NoLoop]

Init == InitWith(MaxRequests)

(***************************************************************************)
(* Database and store primitives.                                          *)
(***************************************************************************)
\* a faulty getVersionById: a row is made up for an id the table does not hold
getVersionByIdUnchecked(id) ==
    IF id \in VersionIds
    THEN LET row == image_versions[CHOOSE i \in 1..Len(image_versions) :
                                       image_versions[i].id = id]
         IN [id |-> row.id, parent_id |-> row.parent_id,
             base_prompt |-> row.base_prompt, chat_id |-> row.chat_id,
             aspect_ratio |-> row.aspect_ratio]
    ELSE [NoVersion EXCEPT !.id = id]

\* a faulty getVersionById: base_prompt is not among the selected columns
getVersionByIdNoPrompt(id) ==
    IF id \in VersionIds
    THEN LET row == image_versions[CHOOSE i \in 1..Len(image_versions) :
                                       image_versions[i].id = id]
         IN [id |-> row.id, parent_id |-> row.parent_id,
             base_prompt |-> "", chat_id |-> row.chat_id,
             aspect_ratio |-> row.aspect_ratio]
    ELSE NoVersion

\* SELECT ... FROM image_versions WHERE id = ?, as getVersionById returns it
getVersionById(id) ==
    IF id \in VersionIds
    THEN LET row == image_versions[CHOOSE i \in 1..Len(image_versions) :
                                       image_versions[i].id = id]
         IN [id |-> row.id, parent_id |-> row.parent_id,
             base_prompt |-> row.base_prompt, chat_id |-> row.chat_id,
             aspect_ratio |-> row.aspect_ratio]
    ELSE NoVersion

\* SELECT ... FROM prompt_sessions WHERE id = ?
getSessionById(id) ==
    IF id \in SessionIds
    THEN prompt_sessions[CHOOSE i \in 1..Len(prompt_sessions) :
                             prompt_sessions[i].id = id]
    ELSE NoSession

\* the row both handlers insert into prompt_sessions
SessionRow(id, basePrompt) ==
    [id |-> id, base_prompt |-> basePrompt,
     system_prompt |-> DEFAULT_SYSTEM_PROMPT,
     base_prompt_hash |-> hashString(basePrompt),
     history |-> JSONstringify(<< >>)]

\* a faulty saveHistory: UPDATE without its WHERE clause
saveHistoryEverywhere(table, sessionId, history) ==
    [i \in 1..Len(table) |-> [table[i] EXCEPT !.history = JSONstringify(history)]]

\* a faulty saveHistory: the two new turns are appended to the stored history
saveHistoryAppending(table, sessionId, history) ==
    [i \in 1..Len(table) |->
        IF table[i].id = sessionId
        THEN [table[i] EXCEPT !.history =
                JSONstringify(parseHistory(table[i].history)
                                \o SubSeq(history, Len(history) - 1, Len(history)))]
        ELSE table[i]]

\* UPDATE prompt_sessions SET history = ? WHERE id = ?
saveHistory(table, sessionId, history) ==
    [i \in 1..Len(table) |->
        IF table[i].id = sessionId
        THEN [table[i] EXCEPT !.history = JSONstringify(history)]
        ELSE table[i]]

\* a faulty insert: INSERT OR REPLACE keyed by parent_id, one child per parent
insertVersionPerParent(table, row) ==
    Append(SelectSeq(table, LAMBDA old : old.parent_id = NULL
                                          \/ old.parent_id # row.parent_id), row)

\* a faulty insert: the parent row is rewritten to carry the edit prompt of its child
insertVersionTouchingParent(table, row) ==
    Append([i \in 1..Len(table) |->
               IF table[i].id = row.parent_id
               THEN [table[i] EXCEPT !.edit_prompt = row.edit_prompt]
               ELSE table[i]], row)

\* INSERT INTO image_versions: the row is appended
insertVersion(table, row) == Append(table, row)

\* crypto.randomUUID(), and the identifier Cloudflare Images gives a new image
NewId == lastId + 1

\* the delivery URL of an image
publicUrl(imageId) == <<"public", imageId>>

(***************************************************************************)
(* Requests.                                                               *)
(***************************************************************************)
\* the handler returns (or throws into fetch's catch): the response goes out
\* and the handler's locals are gone
Finish(r, status, error, vid) ==
    /\ pc' = [pc EXCEPT ![r] = "done"]
    /\ response' = [response EXCEPT ![r] =
            [status |-> status, error |-> error, version_id |-> vid, versions |-> << >>]]
    /\ previousVersion' = [previousVersion EXCEPT ![r] = NoVersion]
    /\ session' = [session EXCEPT ![r] = NoSession]
    /\ aiResponse' = [aiResponse EXCEPT ![r] = NoResponse]
    /\ uploadResult' = [uploadResult EXCEPT ![r] = NoUpload]
    /\ versionId' = [versionId EXCEPT ![r] = NULL]
    /\ UNCHANGED structured

\* the handler goes on to its next await with these locals
Continue(r, label, pv, s, ai, up, vid) ==
    /\ pc' = [pc EXCEPT ![r] = label]
    /\ previousVersion' = [previousVersion EXCEPT ![r] = pv]
    /\ session' = [session EXCEPT ![r] = s]
    /\ aiResponse' = [aiResponse EXCEPT ![r] = ai]
    /\ uploadResult' = [uploadResult EXCEPT ![r] = up]
    /\ versionId' = [versionId EXCEPT ![r] = vid]
    /\ UNCHANGED <<response, structured>>

InFlight == {r \in Requests : pc[r] \notin {"idle", "done"}}

\* requests arrive in the order of their numbers, a bounded number at a time
MayArrive(r, inFlight) ==
    /\ pc[r] = "idle"
    /\ \A q \in Requests : q < r => pc[q] # "idle"
    /\ Cardinality(InFlight) < inFlight

\* the requests that an upstream service or the database has failed so far
Faulted == {r \in Requests : response[r].status \in {500, 502}}

\* the outcomes the environment may still choose from
Allowed(outcomes, maxFaults) ==
    IF Cardinality(Faulted) < maxFaults THEN outcomes
    ELSE outcomes \cap {"ok", "image", "bare"}

\* the messages of the errors the handlers throw or return
ErrOracle == "generateContent failed"
ErrNoParts == "Gemini response did not include image data"
ErrNoImage == "Gemini response missing inline image"
ErrStore == "Failed to upload to Cloudflare Images"
ErrFetch == "Unable to download image for editing"
ErrDatabase == "D1_ERROR"
ErrNoSession == "A session or base prompt is required to edit"

\* Cloudflare Images takes the POST: the image is stored only when it succeeds
StoreImage(r, outcome, bytes) ==
    IF outcome = "ok"
    THEN /\ images' = images @@ (NewId :> bytes)
         /\ lastId' = NewId
         /\ effects' = [effects EXCEPT ![r] = @ \cup {<<"image", NewId>>}]
    ELSE UNCHANGED <<images, lastId, effects>>

\* a faulty check: the response of Cloudflare Images is never looked at
uploadNeverThrows(outcome) == FALSE

\* if (!response.ok || !payload?.success) throw new Error(...)
uploadThrows(outcome) == outcome # "ok"

\* { id: payload.result.id, publicUrl }: the id of the stored image, if any
StoreResult(outcome) ==
    [state |-> outcome, id |-> IF outcome = "ok" THEN NewId ELSE UnknownId]

\* what a request has written: the identifiers under one kind of write
Wrote(r, kind) == {e[2] : e \in {x \in effects[r] : x[1] = kind}}

(***************************************************************************)
(* handleUpload                                                            *)
(***************************************************************************)
\* const designIntent = formData.get("design_intent") ?? (formData.get("base_prompt") ?? "")
UploadDesignIntent(b) ==
    IF b.design_intent # Undefined THEN b.design_intent
    ELSE IF b.base_prompt # Undefined THEN b.base_prompt ELSE ""

\* the metadata handleUpload writes, with the keys of the later spread
UploadMetadata(b, sessionId, imageId) ==
    [base_prompt_hash |-> hashString(UploadDesignIntent(b)),
     edit_instruction |-> Undefined,
     model |-> "source",
     aspect_ratio |-> IF Truthy(b.aspect_ratio) /\ b.aspect_ratio \in SUPPORTED_ASPECT_RATIOS
                      THEN b.aspect_ratio ELSE Undefined,
     angle_id |-> Undefined,
     parent_id |-> NULL,
     cloudflare_image_id |-> imageId,
     session_id |-> sessionId]

UploadVersionRow(id, b, sessionId, imageId) ==
    [id |-> id,
     parent_id |-> NULL,
     base_prompt |-> UploadDesignIntent(b),
     edit_prompt |-> Undefined,
     model |-> "source",
     image_url |-> publicUrl(imageId),
     metadata |-> UploadMetadata(b, sessionId, imageId),
     chat_id |-> sessionId,
     aspect_ratio |-> b.aspect_ratio,
     diff_summary |-> << >>,
     created_at |-> now]

\* the request arrives; content type and file field are validated
ReceiveUpload(r, Bodies, inFlight) ==
    /\ MayArrive(r, inFlight)
    /\ \E b \in Bodies :
        /\ b.route = "upload"
        /\ body' = [body EXCEPT ![r] = b]
        /\ IF ~b.multipart THEN Finish(r, 415, "Expected multipart/form-data", NULL)
           ELSE IF ~b.file THEN Finish(r, 400, "File field is required", NULL)
           ELSE Continue(r, "u_insertSession", NoVersion, NoSession, NoResponse,
                         NoUpload, NULL)
    /\ UNCHANGED <<db, store, effects>>

\* sessionId = crypto.randomUUID(); INSERT INTO prompt_sessions
UploadInsertSession(r) ==
    /\ pc[r] = "u_insertSession"
    /\ LET row == SessionRow(NewId, UploadDesignIntent(body[r])) IN
        /\ prompt_sessions' = Append(prompt_sessions, row)
        /\ Continue(r, "u_store", NoVersion, row, NoResponse, NoUpload, NULL)
    /\ lastId' = NewId
    /\ effects' = [effects EXCEPT ![r] = @ \cup {<<"session", NewId>>}]
    /\ UNCHANGED <<image_versions, images, now, body>>

\* uploadToCloudflareImages(env, fileBytes, ...)
UploadStore(r, E, maxFaults) ==
    /\ pc[r] = "u_store"
    /\ \E outcome \in Allowed(E.store, maxFaults) :
        /\ StoreImage(r, outcome, "file")
        /\ IF uploadThrows(outcome) THEN Finish(r, 500, ErrStore, NULL)
           ELSE Continue(r, "u_insertVersion", NoVersion, session[r], NoResponse,
                         StoreResult(outcome), NULL)
    /\ UNCHANGED <<db, now, body>>

\* versionId = crypto.randomUUID(); INSERT INTO image_versions
UploadInsertVersion(r, E, maxFaults) ==
    /\ pc[r] = "u_insertVersion"
    /\ lastId' = NewId
    /\ \E outcome \in Allowed(E.insert, maxFaults) :
        IF outcome = "ok"
        THEN /\ image_versions' = insertVersion(image_versions,
                    UploadVersionRow(NewId, body[r], session[r].id, uploadResult[r].id))
             /\ effects' = [effects EXCEPT ![r] = @ \cup {<<"version", NewId>>}]
             /\ Finish(r, 200, "", NewId)
        ELSE /\ Finish(r, 500, ErrDatabase, NULL)
             /\ UNCHANGED <<image_versions, effects>>
    /\ UNCHANGED <<prompt_sessions, images, now, body>>

(***************************************************************************)
(* handleEdit                                                              *)
(***************************************************************************)
\* the parts the oracle returns, by outcome
OracleParts(outcome) ==
    CASE outcome = "empty" -> << >>
      [] outcome = "text"  -> << [text |-> "commentary"] >>
      [] outcome = "bare"  -> << [inline_data |-> "render"] >>
      [] OTHER             -> << [text |-> "commentary"], [inlineData |-> "render"] >>

\* a faulty order: the Version row is inserted before the image is stored
EditOrderInsertFirst ==
    <<"e_fetchImages", "e_generate", "e_insertVersion", "e_store", "e_saveHistory">>

\* a faulty order: the session history is saved before the Version is inserted
EditOrderSaveFirst ==
    <<"e_fetchImages", "e_generate", "e_store", "e_saveHistory", "e_insertVersion">>

\* the awaits of handleEdit after session resolution, in the order of the code
EditOrder == <<"e_fetchImages", "e_generate", "e_store", "e_insertVersion", "e_saveHistory">>

\* the await that follows this one; "respond" after the last
After(label) ==
    LET i == CHOOSE k \in 1..Len(EditOrder) : EditOrder[k] = label
    IN IF i = Len(EditOrder) THEN "respond" ELSE EditOrder[i + 1]

\* if (!session) return 400
NextAfterResolve(s) ==
    IF s.id = NULL THEN "reject" ELSE EditOrder[1]

\* a faulty rule 3: a design intent in the request always makes a new session
NextAfterSession2Always(s, b) ==
    IF Truthy(b.base_prompt) THEN "e_createSession"
    ELSE NextAfterResolve(s)

\* if (!session && body.base_prompt) session = await createSession(...)
NextAfterSession2(s, b) ==
    IF s.id = NULL /\ Truthy(b.base_prompt) THEN "e_createSession"
    ELSE NextAfterResolve(s)

\* if (!session && body.session_id) session = await getSessionById(...)
NextAfterSession1(s, b) ==
    IF s.id = NULL /\ b.session_id # NULL THEN "e_getSession2"
    ELSE NextAfterSession2(s, b)

\* a faulty precedence: the explicit session id is looked up first
NextAfterVersionExplicitFirst(pv, b) ==
    IF b.session_id # NULL THEN "e_getSession2"
    ELSE IF pv.chat_id # NULL THEN "e_getSession1"
    ELSE NextAfterSession1(NoSession, b)

\* session = previousVersion?.chat_id ? await getSessionById(...) : null
NextAfterVersion(pv, b) ==
    IF pv.chat_id # NULL THEN "e_getSession1"
    ELSE NextAfterSession1(NoSession, b)

\* previousVersion = body.previous_version_id ? await getVersionById(...) : null
NextAfterReceive(b) ==
    IF b.previous_version_id # NULL THEN "e_getVersion"
    ELSE NextAfterVersion(NoVersion, b)

\* go to the label, or return the 400 of a missing session, or the final 200
Advance(r, label, pv, s, ai, up, vid) ==
    IF label = "reject" THEN Finish(r, 400, ErrNoSession, NULL)
    ELSE IF label = "respond" THEN Finish(r, 200, "", vid)
    ELSE Continue(r, label, pv, s, ai, up, vid)

\* a faulty parent: previousVersion?.parent_id, the parent of the cited version
parentIdOfParent(pv) == pv.parent_id

\* const parentId = previousVersion?.id ?? null
parentIdOf(pv) == pv.id

\* a faulty choice: any aspect ratio of the request is taken, supported or not
editAspectRatioUnchecked(b, pv) ==
    IF Truthy(b.aspect_ratio) THEN b.aspect_ratio ELSE pv.aspect_ratio

\* the aspect ratio of the edit
editAspectRatio(b, pv) ==
    IF Truthy(b.aspect_ratio) /\ b.aspect_ratio \in SUPPORTED_ASPECT_RATIOS
    THEN b.aspect_ratio
    ELSE pv.aspect_ratio

\* const designIntent = previousVersion?.base_prompt ?? session.base_prompt
editDesignIntent(pv, s) ==
    IF pv.base_prompt # Undefined THEN pv.base_prompt ELSE s.base_prompt

\* the user turn: the instruction, then one inline part per referenced image
userMessage(b) ==
    [role |-> "user",
     parts |-> << [text |-> b.edit_prompt] >>
               \o [i \in 1..Len(b.image_ids) |-> [inlineData |-> images[b.image_ids[i]]]]]

\* a faulty context: the turns of the session are not replayed
messagesOfAlone(s, b) == << userMessage(b) >>

\* const messages = [...conversation, userMessage]
messagesOf(s, b) == parseHistory(s.history) \o << userMessage(b) >>

modelMessage(ai) == [role |-> "model", parts |-> normalizeParts(ai.parts)]

\* a faulty append: a user turn the history already holds is not added again
updatedHistoryOfOnce(s, b, ai) ==
    IF userMessage(b) \in Range(parseHistory(s.history)) THEN parseHistory(s.history)
    ELSE parseHistory(s.history) \o << userMessage(b), modelMessage(ai) >>

\* const updatedHistory = [...messages, { role: "model", parts: modelParts }]
updatedHistoryOf(s, b, ai) == messagesOf(s, b) \o << modelMessage(ai) >>

\* modelParts.find((part) => part.inlineData): its index, NULL when there is none
inlineImagePart(modelParts) ==
    LET hits == {i \in 1..Len(modelParts) : "inlineData" \in DOMAIN modelParts[i]}
    IN IF hits = {} THEN NULL ELSE CHOOSE i \in hits : \A j \in hits : i <= j

\* the texts summarizeParts joins; none of them stands for the empty summary
summarizeParts(modelParts) ==
    LET RECURSIVE texts(_)
        texts(i) ==
            IF i > Len(modelParts) THEN << >>
            ELSE IF "text" \in DOMAIN modelParts[i]
                    /\ trim(Chars(modelParts[i].text)) # << >>
                 THEN << modelParts[i].text >> \o texts(i + 1)
                 ELSE texts(i + 1)
    IN texts(1)

EditMetadata(b, pv, s, imageId) ==
    [base_prompt_hash |-> s.base_prompt_hash,
     edit_instruction |-> b.edit_prompt,
     model |-> DEFAULT_MODEL,
     aspect_ratio |-> editAspectRatio(b, pv),
     angle_id |-> inferCameraAngle(b.edit_prompt, b.camera_hint),
     parent_id |-> parentIdOf(pv),
     cloudflare_image_id |-> imageId,
     session_id |-> s.id]

EditVersionRow(id, b, pv, s, imageId, ai) ==
    [id |-> id,
     parent_id |-> parentIdOf(pv),
     base_prompt |-> editDesignIntent(pv, s),
     edit_prompt |-> b.edit_prompt,
     model |-> DEFAULT_MODEL,
     image_url |-> publicUrl(imageId),
     metadata |-> EditMetadata(b, pv, s, imageId),
     chat_id |-> s.id,
     aspect_ratio |-> editAspectRatio(b, pv),
     diff_summary |-> summarizeParts(normalizeParts(ai.parts)),
     created_at |-> now]

\* the request arrives; the body is parsed and validated
ReceiveEdit(r, Bodies, inFlight) ==
    /\ MayArrive(r, inFlight)
    /\ \E b \in Bodies :
        /\ b.route = "edit"
        /\ body' = [body EXCEPT ![r] = b]
        /\ IF ~b.json THEN Finish(r, 400, "Invalid JSON body", NULL)
           ELSE IF Len(b.image_ids) = 0
                THEN Finish(r, 400, "At least one image_id is required", NULL)
           ELSE IF ~Truthy(b.edit_prompt)
                THEN Finish(r, 400, "edit_prompt is required", NULL)
           ELSE Advance(r, NextAfterReceive(b), NoVersion, NoSession, NoResponse,
                        NoUpload, NULL)
    /\ UNCHANGED <<db, store, effects>>

\* previousVersion = await getVersionById(env, body.previous_version_id)
EditGetVersion(r) ==
    /\ pc[r] = "e_getVersion"
    /\ LET pv == getVersionById(body[r].previous_version_id) IN
        Advance(r, NextAfterVersion(pv, body[r]), pv, NoSession, NoResponse, NoUpload, NULL)
    /\ UNCHANGED <<db, store, body, effects>>

\* session = await getSessionById(env, previousVersion.chat_id)
EditGetSession1(r) ==
    /\ pc[r] = "e_getSession1"
    /\ LET s == getSessionById(previousVersion[r].chat_id) IN
        Advance(r, NextAfterSession1(s, body[r]), previousVersion[r], s, NoResponse,
                NoUpload, NULL)
    /\ UNCHANGED <<db, store, body, effects>>

\* session = await getSessionById(env, body.session_id)
EditGetSession2(r) ==
    /\ pc[r] = "e_getSession2"
    /\ LET s == getSessionById(body[r].session_id) IN
        Advance(r, NextAfterSession2(s, body[r]), previousVersion[r], s, NoResponse,
                NoUpload, NULL)
    /\ UNCHANGED <<db, store, body, effects>>

\* session = await createSession(env, body.base_prompt)
EditCreateSession(r) ==
    /\ pc[r] = "e_createSession"
    /\ LET row == SessionRow(NewId, body[r].base_prompt) IN
        /\ prompt_sessions' = Append(prompt_sessions, row)
        /\ Advance(r, NextAfterResolve(row), previousVersion[r], row, NoResponse,
                   NoUpload, NULL)
    /\ lastId' = NewId
    /\ effects' = [effects EXCEPT ![r] = @ \cup {<<"session", NewId>>}]
    /\ UNCHANGED <<image_versions, images, now, body>>

\* await Promise.all(body.image_ids.map(fetchImageAsBase64))
EditFetchImages(r, E, maxFaults) ==
    /\ pc[r] = "e_fetchImages"
    /\ \E outcome \in Allowed(E.fetch, maxFaults) :
        IF outcome = "ok" /\ Range(body[r].image_ids) \subseteq DOMAIN images
        THEN Advance(r, After("e_fetchImages"), previousVersion[r], session[r],
                     aiResponse[r], uploadResult[r], versionId[r])
        ELSE Finish(r, 500, ErrFetch, NULL)
    /\ UNCHANGED <<db, store, body, effects>>

\* aiResponse = await generateImageFromGemini(...), and the checks of its parts
EditGenerate(r, E, maxFaults) ==
    /\ pc[r] = "e_generate"
    /\ \E outcome \in Allowed(E.oracle, maxFaults) :
        IF outcome = "throw" THEN Finish(r, 500, ErrOracle, NULL)
        ELSE LET ai == [state |-> "ok", parts |-> OracleParts(outcome)] IN
             IF Len(ai.parts) = 0 THEN Finish(r, 502, ErrNoParts, NULL)
             ELSE IF inlineImagePart(normalizeParts(ai.parts)) = NULL
                  THEN Finish(r, 502, ErrNoImage, NULL)
                  ELSE Advance(r, After("e_generate"), previousVersion[r], session[r],
                               ai, uploadResult[r], versionId[r])
    /\ UNCHANGED <<db, store, body, effects>>

\* uploadResult = await uploadToCloudflareImages(env, imageBytes, ...)
EditStore(r, E, maxFaults) ==
    /\ pc[r] = "e_store"
    /\ \E outcome \in Allowed(E.store, maxFaults) :
        /\ LET mp == normalizeParts(aiResponse[r].parts)
           IN StoreImage(r, outcome, mp[inlineImagePart(mp)].inlineData)
        /\ IF uploadThrows(outcome) THEN Finish(r, 500, ErrStore, NULL)
           ELSE Advance(r, After("e_store"), previousVersion[r], session[r],
                        aiResponse[r], StoreResult(outcome), versionId[r])
    /\ UNCHANGED <<db, now, body>>

\* versionId = crypto.randomUUID(); INSERT INTO image_versions
EditInsertVersion(r, E, maxFaults) ==
    /\ pc[r] = "e_insertVersion"
    /\ lastId' = NewId
    /\ \E outcome \in Allowed(E.insert, maxFaults) :
        IF outcome = "ok"
        THEN /\ image_versions' = insertVersion(image_versions,
                    EditVersionRow(NewId, body[r], previousVersion[r], session[r],
                                   uploadResult[r].id, aiResponse[r]))
             /\ effects' = [effects EXCEPT ![r] = @ \cup {<<"version", NewId>>}]
             /\ Advance(r, After("e_insertVersion"), previousVersion[r], session[r],
                        aiResponse[r], uploadResult[r], NewId)
        ELSE /\ Finish(r, 500, ErrDatabase, NULL)
             /\ UNCHANGED <<image_versions, effects>>
    /\ UNCHANGED <<prompt_sessions, images, now, body>>

\* await saveHistory(env, session.id, trimHistory(updatedHistory))
EditSaveHistory(r, E, maxFaults) ==
    /\ pc[r] = "e_saveHistory"
    /\ \E outcome \in Allowed(E.save, maxFaults) :
        IF outcome = "ok"
        THEN /\ prompt_sessions' = saveHistory(prompt_sessions, session[r].id,
                    trimHistory(updatedHistoryOf(session[r], body[r], aiResponse[r])))
             /\ effects' = [effects EXCEPT ![r] = @ \cup {<<"history", session[r].id>>}]
             /\ Advance(r, After("e_saveHistory"), previousVersion[r], session[r],
                        aiResponse[r], uploadResult[r], versionId[r])
        ELSE /\ Finish(r, 500, ErrDatabase, NULL)
             /\ UNCHANGED <<prompt_sessions, effects>>
    /\ UNCHANGED <<image_versions, store, body>>

(***************************************************************************)
(* handleRenderAngle, handleHistory, handleView                            *)
(***************************************************************************)
\* WHERE json_extract(metadata, '$.angle_id') = ?
TaggedRows(angleId) ==
    {i \in 1..Len(image_versions) : image_versions[i].metadata.angle_id = angleId}

\* a faulty ORDER BY: datetime(created_at) ASC, the oldest row first
OldestRows(angleId) ==
    {i \in TaggedRows(angleId) :
        \A j \in TaggedRows(angleId) :
            image_versions[i].created_at <= image_versions[j].created_at}

\* ORDER BY datetime(created_at) DESC LIMIT 1: a row of the greatest
\* created_at; SQL leaves the choice among equal timestamps open
LatestRows(angleId) ==
    {i \in TaggedRows(angleId) :
        \A j \in TaggedRows(angleId) :
            image_versions[j].created_at <= image_versions[i].created_at}

\* a faulty join: ON iv.id = history.parent_id, the walk goes to the parents
RECURSIVE HistoryLevelUpwards(_, _)
HistoryLevelUpwards(id, depth) ==
    IF depth = 0 THEN {i \in 1..Len(image_versions) : image_versions[i].id = id}
    ELSE {i \in 1..Len(image_versions) :
            \E p \in HistoryLevelUpwards(id, depth - 1) :
                image_versions[i].id = image_versions[p].parent_id}

\* the rows of the recursive query at one depth
RECURSIVE HistoryLevel(_, _)
HistoryLevel(id, depth) ==
    IF depth = 0 THEN {i \in 1..Len(image_versions) : image_versions[i].id = id}
    ELSE {i \in 1..Len(image_versions) :
            \E p \in HistoryLevel(id, depth - 1) :
                image_versions[i].parent_id = image_versions[p].id}

\* every enumeration of a set of rows
RECURSIVE Orderings(_)
Orderings(S) ==
    IF S = {} THEN {<< >>}
    ELSE UNION {{<<x>> \o rest : rest \in Orderings(S \ {x})} : x \in S}

\* ORDER BY history.depth: the levels in turn, each in an order SQL leaves open
RECURSIVE HistoryResults(_, _)
HistoryResults(id, depth) ==
    IF HistoryLevel(id, depth) = {} THEN {<< >>}
    ELSE {head \o tail : head \in Orderings(HistoryLevel(id, depth)),
                         tail \in HistoryResults(id, depth + 1)}

\* WHERE id = ? OR json_extract(metadata, '$.cloudflare_image_id') = ? LIMIT 1
ViewRows(id) ==
    {i \in 1..Len(image_versions) :
        image_versions[i].id = id \/ image_versions[i].metadata.cloudflare_image_id = id}

handleRenderAngle(r, Bodies, inFlight) ==
    /\ MayArrive(r, inFlight)
    /\ \E b \in Bodies :
        /\ b.route = "render-angle"
        /\ body' = [body EXCEPT ![r] = b]
        /\ IF ~Truthy(b.angle_id) THEN Finish(r, 400, "angle_id is required", NULL)
           ELSE IF TaggedRows(b.angle_id) = {}
                THEN Finish(r, 404, "No render found for that angle", NULL)
           ELSE \E i \in LatestRows(b.angle_id) : Finish(r, 200, "", image_versions[i].id)
    /\ UNCHANGED <<db, store, effects>>

handleHistory(r, Bodies, inFlight) ==
    /\ MayArrive(r, inFlight)
    /\ \E b \in Bodies :
        /\ b.route = "history"
        /\ body' = [body EXCEPT ![r] = b]
        /\ \E rows \in HistoryResults(b.id, 0) :
            /\ pc' = [pc EXCEPT ![r] = "done"]
            /\ response' = [response EXCEPT ![r] =
                  [status |-> 200, error |-> "", version_id |-> NULL,
                   versions |-> [k \in 1..Len(rows) |-> image_versions[rows[k]].id]]]
    /\ UNCHANGED <<db, store, previousVersion, session, aiResponse, uploadResult,
                   versionId, effects, structured>>

handleView(r, Bodies, inFlight) ==
    /\ MayArrive(r, inFlight)
    /\ \E b \in Bodies :
        /\ b.route = "view"
        /\ body' = [body EXCEPT ![r] = b]
        /\ IF ViewRows(b.id) = {} THEN Finish(r, 404, "Image not found", NULL)
           ELSE \E i \in ViewRows(b.id) : Finish(r, 200, "", image_versions[i].id)
    /\ UNCHANGED <<db, store, effects>>

(***************************************************************************)
(* The /edit worker: structured edit requests.  It has no database; it     *)
(* writes artifacts through env.IMAGES and reads them back by their        *)
(* delivery URL.                                                           *)
(***************************************************************************)
\* svgApply: the text unchanged without ops, else with a comment naming them
svgApply(svg, ops) ==
    IF Len(ops) = 0 THEN svg
    ELSE <<svg, "ops", [i \in 1..Len(ops) |-> ops[i].op]>>

svgFromImage(imageId) == <<"svg", "data-source", imageId>>

\* rasterize: the encoded { svg, width, height, dpi }
rasterize(svg, width, height, dpi) == <<"raster", svg, width, height, dpi>>

\* the stubs of the oracle: the bytes they are given
geminiGenerateView(bytes, camera, basePrompt) == bytes
geminiEdit(bytes, instruction, mask, basePrompt) == bytes

createMetadata(input, basePromptHash, parentId, opSeq, kind, source, variant, angleId) ==
    [parent_id |-> parentId,
     op_seq |-> opSeq,
     client_request_id |-> input.client_request_id,
     base_prompt_hash |-> basePromptHash,
     angle_id |-> angleId,
     source |-> source,
     kind |-> kind,
     variant |-> variant]

\* `${base}/${id}/${variant}`
publicUrlOf(id, variant) == <<"delivery", id, variant>>

buildChangelog(floorPlanOps) ==
    [i \in 1..Len(floorPlanOps) |-> [op |-> floorPlanOps[i].op, status |-> "done"]]

summarizeOps(ops) == [i \in 1..Len(ops) |-> [op |-> ops[i].op, status |-> "done"]]

buildPhotoNote(op) ==
    IF op.op = "render_angle" /\ Truthy(op.angle_id) THEN <<"Rendered angle", op.angle_id>>
    ELSE IF op.op = "local_edit" /\ Truthy(op.angle_id)
         THEN <<"Applied local edit for", op.angle_id>>
         ELSE <<"Photo operation processed">>

\* findCamera: the first preset with this id; none makes it throw
CameraFound(angles, id) == \E i \in 1..Len(angles) : angles[i].id = id
findCamera(angles, id) ==
    angles[CHOOSE i \in 1..Len(angles) :
              angles[i].id = id /\ \A j \in 1..(i - 1) : angles[j].id # id]

\* the failures of env.IMAGES and of the delivery fetch so far
FaultsSoFar ==
    Cardinality(UNION {{<<r, k, i>> : i \in Wrote(r, k)} :
                          r \in Requests, k \in {"fault", "fetchFault"}})

\* the outcomes the environment of the /edit worker may still choose from
AllowedNow(outcomes, maxFaults) ==
    IF FaultsSoFar < maxFaults THEN outcomes ELSE outcomes \cap {"ok"}

\* uploadBytesToImages: a fresh id; the artifact is in env.IMAGES only when
\* the binding did not throw; the catch swallows the error
uploadBytesToImages(r, outcome, bytes, metadata) ==
    /\ lastId' = NewId
    /\ IMAGES' = IF outcome = "ok"
                 THEN IMAGES @@ (NewId :> [bytes |-> bytes, metadata |-> metadata])
                 ELSE IMAGES
    /\ effects' = [effects EXCEPT ![r] =
            @ \cup {<<IF outcome = "ok" THEN "artifact" ELSE "fault", NewId>>}]

\* return id: what uploadBytesToImages returns, whatever the binding did
ReturnedId(outcome) == NewId

\* the status of the delivery fetch of this image
fetchStatus(id, outcome) ==
    IF id \notin DOMAIN IMAGES THEN 404
    ELSE IF outcome = "ok" THEN 200 ELSE 500

\* the handler answers
Respond(r, status, error, result) ==
    /\ pc' = [pc EXCEPT ![r] = "done"]
    /\ response' = [response EXCEPT ![r] =
            [status |-> status, error |-> error, version_id |-> NULL,
             versions |-> << >>, result |-> result]]
    /\ loop' = [loop EXCEPT ![r] = NoLoop]

NoResult == [photos |-> << >>,
             floor_plan |-> [updated_svg |-> Undefined, raster_preview_image_id |-> NULL,
                             ops_applied |-> << >>],
             versioning |-> [parent_image_id |-> NULL, new_image_ids |-> << >>,
                             changelog |-> << >>]]

\* let updatedSvg, by the type of the floor plan asset
updatedSvgOf(input) ==
    IF input.floor_plan_asset.type = "svg"
    THEN svgApply(input.floor_plan_asset.value, input.floor_plan_ops)
    ELSE svgFromImage(input.floor_plan_asset.value)

\* a faulty chain: every operation starts from the image the request cites
beforeIdOfRequest(l, input) == input.current_image_id

\* const beforeId = currentId
beforeIdOf(l, input) == l.currentId

\* what the first worker holds is not touched by the /edit worker
firstWorker == <<prompt_sessions, image_versions, images, now, previousVersion,
                 session, aiResponse, uploadResult, versionId>>

\* POST /edit arrives: the body is parsed and checked against the schema
ReceiveStructured(r, Bodies, inFlight) ==
    /\ MayArrive(r, inFlight)
    /\ \E b \in Bodies :
        /\ b.route = "/edit"
        /\ body' = [body EXCEPT ![r] = b]
        /\ IF ~b.json THEN Respond(r, 400, "Invalid JSON body", NoResult)
           ELSE IF ~b.valid THEN Respond(r, 400, "schema", NoResult)
           ELSE /\ pc' = [pc EXCEPT ![r] = "s_planPreview"]
                /\ loop' = [loop EXCEPT ![r] = [NoLoop EXCEPT !.opSeq = 1]]
                /\ UNCHANGED response
    /\ UNCHANGED <<firstWorker, lastId, IMAGES, effects>>

\* const planPreviewId = await uploadBytesToImages(... variant: "preview" ...)
StructPlanPreview(r, E, maxFaults) ==
    /\ pc[r] = "s_planPreview"
    /\ \E outcome \in AllowedNow(E.store, maxFaults) :
        /\ uploadBytesToImages(r, outcome,
                rasterize(updatedSvgOf(body[r]), 1600, 1000, 144),
                createMetadata(body[r], hashString(body[r].base_prompt),
                               body[r].current_image_id, loop[r].opSeq,
                               "plan", "svg-rasterize", "preview", Undefined))
        /\ loop' = [loop EXCEPT ![r].planPreviewId = ReturnedId(outcome)]
    /\ pc' = [pc EXCEPT ![r] = "s_planArchival"]
    /\ UNCHANGED <<firstWorker, body, response>>

\* const planArchivalId = await uploadBytesToImages(... variant: "archival" ...);
\* newImageIds, changelog and currentId are set up for the loop
StructPlanArchival(r, E, maxFaults) ==
    /\ pc[r] = "s_planArchival"
    /\ \E outcome \in AllowedNow(E.store, maxFaults) :
        /\ uploadBytesToImages(r, outcome,
                rasterize(updatedSvgOf(body[r]), 1600, 1000, 144),
                createMetadata(body[r], hashString(body[r].base_prompt),
                               body[r].current_image_id, loop[r].opSeq,
                               "plan", "svg-rasterize", "archival", Undefined))
        /\ loop' = [loop EXCEPT
                ![r].newImageIds = <<loop[r].planPreviewId, ReturnedId(outcome)>>,
                ![r].changelog = buildChangelog(body[r].floor_plan_ops),
                ![r].currentId = body[r].current_image_id,
                ![r].next = 1]
    /\ pc' = [pc EXCEPT ![r] = "s_op"]
    /\ UNCHANGED <<firstWorker, body, response>>

\* one turn of for (const op of photo_ops) up to the preview upload, or the
\* response when no op is left
StructOp(r, E, maxFaults) ==
    /\ pc[r] = "s_op"
    /\ LET l == loop[r]
           input == body[r]
           skip(entries) ==
               /\ loop' = [loop EXCEPT ![r].changelog = l.changelog \o entries,
                                       ![r].next = l.next + 1]
               /\ UNCHANGED <<pc, response, effects>>
       IN
       IF l.next > Len(input.photo_ops)
       THEN /\ Respond(r, 200, "",
                  [floor_plan |-> [updated_svg |-> updatedSvgOf(input),
                                   raster_preview_image_id |-> l.planPreviewId,
                                   ops_applied |-> summarizeOps(input.floor_plan_ops)],
                   photos |-> l.photos,
                   versioning |-> [parent_image_id |-> input.current_image_id,
                                   new_image_ids |-> l.newImageIds,
                                   changelog |-> l.changelog]])
            /\ UNCHANGED effects
       ELSE LET op == input.photo_ops[l.next] IN
            IF ~Truthy(op.op) THEN skip(<< >>)
            ELSE IF op.op \notin {"render_angle", "local_edit"}
            THEN skip(<< [op |-> op.op, status |-> "skipped"] >>)
            ELSE IF ~Truthy(op.angle_id)
            THEN skip(<< [op |-> op.op, status |-> "blocked",
                          reason |-> <<"Missing angle_id">>] >>)
            ELSE \E outcome \in AllowedNow(E.fetch, maxFaults) :
                 LET beforeId == beforeIdOf(l, input)
                     status == fetchStatus(beforeId, outcome)
                 IN IF status # 200
                    THEN /\ loop' = [loop EXCEPT
                              ![r].changelog = Append(l.changelog,
                                  [op |-> op.op, status |-> "blocked",
                                   reason |-> <<"Unable to fetch image", beforeId, status>>,
                                   angle_id |-> op.angle_id]),
                              ![r].next = l.next + 1]
                         /\ effects' = [effects EXCEPT ![r] =
                              @ \cup (IF status = 500 THEN {<<"fetchFault", l.next>>} ELSE {})]
                         /\ UNCHANGED <<pc, response>>
                    ELSE IF ~CameraFound(input.angles, op.angle_id)
                    THEN skip(<< [op |-> op.op, status |-> "blocked",
                                  reason |-> <<"Angle not found", op.angle_id>>,
                                  angle_id |-> op.angle_id] >>)
                    ELSE /\ loop' = [loop EXCEPT
                              ![r].beforeId = beforeId,
                              ![r].resultBytes =
                                  IF op.op = "render_angle"
                                  THEN geminiGenerateView(IMAGES[beforeId].bytes,
                                          findCamera(input.angles, op.angle_id).camera,
                                          input.base_prompt)
                                  ELSE geminiEdit(IMAGES[beforeId].bytes, op.instruction,
                                                  Undefined, input.base_prompt),
                              ![r].opSeq = l.opSeq + 1]
                         /\ pc' = [pc EXCEPT ![r] = "s_preview"]
                         /\ UNCHANGED <<response, effects>>
    /\ UNCHANGED <<firstWorker, lastId, IMAGES, body>>

\* const previewId = await uploadBytesToImages(... variant: "preview" ...)
StructPreview(r, E, maxFaults) ==
    /\ pc[r] = "s_preview"
    /\ \E outcome \in AllowedNow(E.store, maxFaults) :
        /\ uploadBytesToImages(r, outcome, loop[r].resultBytes,
                createMetadata(body[r], hashString(body[r].base_prompt),
                               loop[r].beforeId, loop[r].opSeq,
                               "photo", "gemini", "preview",
                               body[r].photo_ops[loop[r].next].angle_id))
        /\ loop' = [loop EXCEPT ![r].previewId = ReturnedId(outcome)]
    /\ pc' = [pc EXCEPT ![r] = "s_archival"]
    /\ UNCHANGED <<firstWorker, body, response>>

\* const archivalId = await uploadBytesToImages(... variant: "archival" ...);
\* the ids, the photo and the changelog entry are pushed, currentId = previewId
StructArchival(r, E, maxFaults) ==
    /\ pc[r] = "s_archival"
    /\ \E outcome \in AllowedNow(E.store, maxFaults) :
        LET l == loop[r]
            op == body[r].photo_ops[l.next]
            archivalId == ReturnedId(outcome)
        IN
        /\ uploadBytesToImages(r, outcome, l.resultBytes,
                createMetadata(body[r], hashString(body[r].base_prompt),
                               l.beforeId, l.opSeq, "photo", "gemini", "archival",
                               op.angle_id))
        /\ loop' = [loop EXCEPT
                ![r].newImageIds = l.newImageIds \o <<l.previewId, archivalId>>,
                ![r].photos = Append(l.photos,
                    [angle |-> op.angle_id,
                     before_image_id |-> l.beforeId,
                     after_image_id |-> l.previewId,
                     archival_image_id |-> archivalId,
                     public_url_after |-> publicUrlOf(l.previewId, "preview"),
                     notes |-> buildPhotoNote(op)]),
                ![r].changelog = Append(l.changelog,
                    [op |-> op.op, angle_id |-> op.angle_id, status |-> "done"]),
                ![r].currentId = l.previewId,
                ![r].next = l.next + 1]
    /\ pc' = [pc EXCEPT ![r] = "s_op"]
    /\ UNCHANGED <<firstWorker, body, response>>

(***************************************************************************)
(* The worker under concurrent requests.                                   *)
(***************************************************************************)
\* the uploads of Spec
UploadBodies ==
    {[route |-> "upload", multipart |-> TRUE, file |-> TRUE,
      design_intent |-> "modern kitchen", base_prompt |-> Undefined,
      aspect_ratio |-> Undefined],
     [route |-> "upload", multipart |-> FALSE, file |-> TRUE,
      design_intent |-> Undefined, base_prompt |-> Undefined, aspect_ratio |-> Undefined],
     [route |-> "upload", multipart |-> TRUE, file |-> FALSE,
      design_intent |-> Undefined, base_prompt |-> Undefined, aspect_ratio |-> Undefined]}

EditBody(imageIds, prompt, basePrompt, pvid, sid) ==
    [route |-> "edit", json |-> TRUE, image_ids |-> imageIds, edit_prompt |-> prompt,
     base_prompt |-> basePrompt, previous_version_id |-> pvid, session_id |-> sid,
     aspect_ratio |-> Undefined, camera_hint |-> Undefined]

\* the image a caller of Spec sends along: the first one stored
FirstImage == {i \in DOMAIN images : \A j \in DOMAIN images : i <= j}

\* the instructions of Spec: the first edit of a behaviour asks for the patio
EditPrompts ==
    IF \A r \in Requests : body[r].route # "edit" THEN {"Patio view"}
    ELSE {"Patio view", "add skylight"}

\* the edits of Spec: every way of citing a version, a session and an intent
EditBodies ==
    {EditBody(<<i>>, p, bp, pvid, sid) :
        i \in FirstImage, p \in EditPrompts,
        bp \in {Undefined, "modern kitchen"},
        pvid \in {NULL, UnknownId} \cup VersionIds,
        sid \in {NULL, UnknownId} \cup SessionIds}
    \cup {EditBody(<<UnknownId>>, "add skylight", "modern kitchen", NULL, NULL),
          EditBody(<< >>, "add skylight", Undefined, NULL, NULL),
          EditBody(<<UnknownId>>, "", Undefined, NULL, NULL),
          [route |-> "edit", json |-> FALSE]}

QueryBodies ==
    {[route |-> "render-angle", angle_id |-> a] : a \in {Undefined, "patio"}}
    \cup {[route |-> q, id |-> id] :
            q \in {"history", "view"}, id \in {UnknownId} \cup VersionIds}

SpecOutcomes ==
    [fetch  |-> {"ok", "throw"},
     oracle |-> {"throw", "empty", "text", "image"},
     store  |-> {"ok", "throw"},
     insert |-> {"ok", "throw"},
     save   |-> {"ok", "throw"}]

Next ==
    \/ \E r \in Requests : ReceiveUpload(r, UploadBodies, MaxInFlight)
    \/ \E r \in Requests : UploadInsertSession(r)
    \/ \E r \in Requests : UploadStore(r, SpecOutcomes, MaxFaults)
    \/ \E r \in Requests : UploadInsertVersion(r, SpecOutcomes, MaxFaults)
    \/ \E r \in Requests : ReceiveEdit(r, EditBodies, MaxInFlight)
    \/ \E r \in Requests : EditGetVersion(r)
    \/ \E r \in Requests : EditGetSession1(r)
    \/ \E r \in Requests : EditGetSession2(r)
    \/ \E r \in Requests : EditCreateSession(r)
    \/ \E r \in Requests : EditFetchImages(r, SpecOutcomes, MaxFaults)
    \/ \E r \in Requests : EditGenerate(r, SpecOutcomes, MaxFaults)
    \/ \E r \in Requests : EditStore(r, SpecOutcomes, MaxFaults)
    \/ \E r \in Requests : EditInsertVersion(r, SpecOutcomes, MaxFaults)
    \/ \E r \in Requests : EditSaveHistory(r, SpecOutcomes, MaxFaults)
    \/ \E r \in Requests : handleRenderAngle(r, QueryBodies, MaxInFlight)
    \/ \E r \in Requests : handleHistory(r, QueryBodies, MaxInFlight)
    \/ \E r \in Requests : handleView(r, QueryBodies, MaxInFlight)

Spec == Init /\ [][Next]_vars

(***************************************************************************)
(* One caller working on one session, one request after the other and no   *)
(* upstream failure: long enough for the history to pass its cap.          *)
(***************************************************************************)
\* the number of requests of the caller, and how many are in flight at once
SeqRequests == 13
SeqInFlight == 1
SeqFaults == 0

\* the caller uploads one floor plan
SeqUploadBodies ==
    IF prompt_sessions = << >>
    THEN {[route |-> "upload", multipart |-> TRUE, file |-> TRUE,
           design_intent |-> "modern kitchen", base_prompt |-> Undefined,
           aspect_ratio |-> Undefined]}
    ELSE {}

\* and then edits it, naming the session of the upload
SeqEditBodies ==
    {EditBody(<<i>>, p, Undefined, NULL, sid) :
        i \in FirstImage, p \in {"Patio view", "add skylight"}, sid \in SessionIds}

SeqOutcomes ==
    [fetch  |-> {"ok"},
     oracle |-> {"image"},
     store  |-> {"ok"},
     insert |-> {"ok"},
     save   |-> {"ok"}]

InitSeq == InitWith(SeqRequests)

NextSeq ==
    \/ \E r \in Requests : ReceiveUpload(r, SeqUploadBodies, SeqInFlight)
    \/ \E r \in Requests : UploadInsertSession(r)
    \/ \E r \in Requests : UploadStore(r, SeqOutcomes, SeqFaults)
    \/ \E r \in Requests : UploadInsertVersion(r, SeqOutcomes, SeqFaults)
    \/ \E r \in Requests : ReceiveEdit(r, SeqEditBodies, SeqInFlight)
    \/ \E r \in Requests : EditGetSession2(r)
    \/ \E r \in Requests : EditFetchImages(r, SeqOutcomes, SeqFaults)
    \/ \E r \in Requests : EditGenerate(r, SeqOutcomes, SeqFaults)
    \/ \E r \in Requests : EditStore(r, SeqOutcomes, SeqFaults)
    \/ \E r \in Requests : EditInsertVersion(r, SeqOutcomes, SeqFaults)
    \/ \E r \in Requests : EditSaveHistory(r, SeqOutcomes, SeqFaults)

SpecSeq == InitSeq /\ [][NextSeq]_vars

(***************************************************************************)
(* One caller who uploads a floor plan, derives versions from versions,    *)
(* and then asks for lineages and for the latest render of an angle, while *)
(* the clock of the database advances.                                     *)
(***************************************************************************)
\* the number of requests of the caller, and the last tick of the clock
LinRequests == 6
MaxClock == 1

\* CURRENT_TIMESTAMP advances; it is read when a row is inserted
Tick(maxClock) ==
    /\ now < maxClock
    /\ InFlight = {}
    /\ now' = now + 1
    /\ UNCHANGED <<db, images, lastId, locals, pc, response, effects, structured>>

Queried == \E r \in Requests : body[r].route \in {"history", "render-angle", "view"}

\* edits of any version there is, asking for the patio or for a skylight
LinEditBodies ==
    IF Queried THEN {}
    ELSE {EditBody(<<i>>, p, Undefined, pvid, NULL) :
            i \in FirstImage, p \in {"Patio view", "add skylight"}, pvid \in VersionIds}

\* the lineage of any version, the latest render of a tagged and of an
\* untagged angle
LinQueryBodies ==
    {[route |-> "render-angle", angle_id |-> a] : a \in {"patio", "kitchen"}}
    \cup {[route |-> "history", id |-> id] : id \in {UnknownId} \cup VersionIds}

InitLin == InitWith(LinRequests)

NextLin ==
    \/ \E r \in Requests : ReceiveUpload(r, SeqUploadBodies, SeqInFlight)
    \/ \E r \in Requests : UploadInsertSession(r)
    \/ \E r \in Requests : UploadStore(r, SeqOutcomes, SeqFaults)
    \/ \E r \in Requests : UploadInsertVersion(r, SeqOutcomes, SeqFaults)
    \/ \E r \in Requests : ReceiveEdit(r, LinEditBodies, SeqInFlight)
    \/ \E r \in Requests : EditGetVersion(r)
    \/ \E r \in Requests : EditGetSession1(r)
    \/ \E r \in Requests : EditFetchImages(r, SeqOutcomes, SeqFaults)
    \/ \E r \in Requests : EditGenerate(r, SeqOutcomes, SeqFaults)
    \/ \E r \in Requests : EditStore(r, SeqOutcomes, SeqFaults)
    \/ \E r \in Requests : EditInsertVersion(r, SeqOutcomes, SeqFaults)
    \/ \E r \in Requests : EditSaveHistory(r, SeqOutcomes, SeqFaults)
    \/ \E r \in Requests : handleRenderAngle(r, LinQueryBodies, SeqInFlight)
    \/ \E r \in Requests : handleHistory(r, LinQueryBodies, SeqInFlight)
    \/ Tick(MaxClock)

SpecLin == InitLin /\ [][NextLin]_vars

(***************************************************************************)
(* One caller who uploads a floor plan and edits it with instructions and  *)
(* camera hints of every kind.                                             *)
(***************************************************************************)
AngleRequests == 3

\* instructions with one keyword, with none, with several in an order other
\* than the declared one, in capitals
AnglePrompts ==
    {"Patio view", "add skylight", "WEST of the patio", "exterior north",
     "Foyer and living"}

\* no hint, an empty and a blank hint, a hint, a hint with blanks around it
AngleHints == {Undefined, "", "   ", "north", " Patio "}

AngleEditBodies ==
    {[EditBody(<<i>>, p, Undefined, NULL, sid) EXCEPT !.camera_hint = h] :
        i \in FirstImage, p \in AnglePrompts, h \in AngleHints, sid \in SessionIds}

InitAngle == InitWith(AngleRequests)

NextAngle ==
    \/ \E r \in Requests : ReceiveUpload(r, SeqUploadBodies, SeqInFlight)
    \/ \E r \in Requests : UploadInsertSession(r)
    \/ \E r \in Requests : UploadStore(r, SeqOutcomes, SeqFaults)
    \/ \E r \in Requests : UploadInsertVersion(r, SeqOutcomes, SeqFaults)
    \/ \E r \in Requests : ReceiveEdit(r, AngleEditBodies, SeqInFlight)
    \/ \E r \in Requests : EditGetSession2(r)
    \/ \E r \in Requests : EditFetchImages(r, SeqOutcomes, SeqFaults)
    \/ \E r \in Requests : EditGenerate(r, SeqOutcomes, SeqFaults)
    \/ \E r \in Requests : EditStore(r, SeqOutcomes, SeqFaults)
    \/ \E r \in Requests : EditInsertVersion(r, SeqOutcomes, SeqFaults)
    \/ \E r \in Requests : EditSaveHistory(r, SeqOutcomes, SeqFaults)

SpecAngle == InitAngle /\ [][NextAngle]_vars

(***************************************************************************)
(* One caller, one request after the other: a floor plan is uploaded, its  *)
(* root is edited again and again, lineages and the patio render are asked *)
(* for in between.                                                         *)
(***************************************************************************)
ScenRequests == 6

RootIds == {image_versions[i].id : i \in {k \in 1..Len(image_versions) :
                                            image_versions[k].parent_id = NULL}}

\* edits that cite a root as previous version
ScenEditBodies ==
    {EditBody(<<i>>, p, Undefined, pvid, NULL) :
        i \in FirstImage, p \in {"render the patio view", "add a skylight"},
        pvid \in RootIds}

ScenQueryBodies ==
    {[route |-> "render-angle", angle_id |-> "patio"]}
    \cup {[route |-> "history", id |-> id] : id \in VersionIds}

InitScen == InitWith(ScenRequests)

NextScen ==
    \/ \E r \in Requests : ReceiveUpload(r, SeqUploadBodies, 1)
    \/ \E r \in Requests : UploadInsertSession(r)
    \/ \E r \in Requests : UploadStore(r, SeqOutcomes, SeqFaults)
    \/ \E r \in Requests : UploadInsertVersion(r, SeqOutcomes, SeqFaults)
    \/ \E r \in Requests : ReceiveEdit(r, ScenEditBodies, 1)
    \/ \E r \in Requests : EditGetVersion(r)
    \/ \E r \in Requests : EditGetSession1(r)
    \/ \E r \in Requests : EditFetchImages(r, SeqOutcomes, SeqFaults)
    \/ \E r \in Requests : EditGenerate(r, SeqOutcomes, SeqFaults)
    \/ \E r \in Requests : EditStore(r, SeqOutcomes, SeqFaults)
    \/ \E r \in Requests : EditInsertVersion(r, SeqOutcomes, SeqFaults)
    \/ \E r \in Requests : EditSaveHistory(r, SeqOutcomes, SeqFaults)
    \/ \E r \in Requests : handleRenderAngle(r, ScenQueryBodies, 1)
    \/ \E r \in Requests : handleHistory(r, ScenQueryBodies, 1)

SpecScen == InitScen /\ [][NextScen]_vars

(***************************************************************************)
(* One caller who uploads and edits with aspect ratios of every kind.      *)
(***************************************************************************)
RatioRequests == 3

\* no aspect ratio, a supported one, one that is not supported
RatioUploadBodies ==
    IF prompt_sessions = << >>
    THEN {[route |-> "upload", multipart |-> TRUE, file |-> TRUE,
           design_intent |-> "modern kitchen", base_prompt |-> Undefined,
           aspect_ratio |-> a] : a \in {Undefined, "16:9", "7:5"}}
    ELSE {}

\* edits of a version, or of none in the session, with such aspect ratios
RatioEditBodies ==
    {[EditBody(<<i>>, "add skylight", Undefined, pvid, NULL) EXCEPT !.aspect_ratio = a] :
        i \in FirstImage, pvid \in VersionIds, a \in {Undefined, "4:3", "7:5"}}
    \cup {[EditBody(<<i>>, "add skylight", Undefined, NULL, sid) EXCEPT !.aspect_ratio = a] :
        i \in FirstImage, sid \in SessionIds, a \in {Undefined, "4:3", "7:5"}}

InitRatio == InitWith(RatioRequests)

NextRatio ==
    \/ \E r \in Requests : ReceiveUpload(r, RatioUploadBodies, SeqInFlight)
    \/ \E r \in Requests : UploadInsertSession(r)
    \/ \E r \in Requests : UploadStore(r, SeqOutcomes, SeqFaults)
    \/ \E r \in Requests : UploadInsertVersion(r, SeqOutcomes, SeqFaults)
    \/ \E r \in Requests : ReceiveEdit(r, RatioEditBodies, SeqInFlight)
    \/ \E r \in Requests : EditGetVersion(r)
    \/ \E r \in Requests : EditGetSession1(r)
    \/ \E r \in Requests : EditGetSession2(r)
    \/ \E r \in Requests : EditFetchImages(r, SeqOutcomes, SeqFaults)
    \/ \E r \in Requests : EditGenerate(r, SeqOutcomes, SeqFaults)
    \/ \E r \in Requests : EditStore(r, SeqOutcomes, SeqFaults)
    \/ \E r \in Requests : EditInsertVersion(r, SeqOutcomes, SeqFaults)
    \/ \E r \in Requests : EditSaveHistory(r, SeqOutcomes, SeqFaults)

SpecRatio == InitRatio /\ [][NextRatio]_vars

(***************************************************************************)
(* Callers with different design intents, who cite versions, sessions and  *)
(* intents in every combination; two requests may be in flight.            *)
(***************************************************************************)
IntentRequests == 3

\* a design intent, a base prompt in its place, or neither
IntentUploadBodies ==
    {[route |-> "upload", multipart |-> TRUE, file |-> TRUE,
      design_intent |-> "modern kitchen", base_prompt |-> "kitchen",
      aspect_ratio |-> Undefined],
     [route |-> "upload", multipart |-> TRUE, file |-> TRUE,
      design_intent |-> Undefined, base_prompt |-> "kitchen", aspect_ratio |-> Undefined],
     [route |-> "upload", multipart |-> TRUE, file |-> TRUE,
      design_intent |-> Undefined, base_prompt |-> Undefined, aspect_ratio |-> Undefined]}

IntentEditBodies ==
    {EditBody(<<i>>, "add skylight", bp, pvid, sid) :
        i \in FirstImage, bp \in {Undefined, "patio"},
        pvid \in {NULL} \cup VersionIds, sid \in {NULL} \cup SessionIds}

InitIntent == InitWith(IntentRequests)

NextIntent ==
    \/ \E r \in Requests : ReceiveUpload(r, IntentUploadBodies, MaxInFlight)
    \/ \E r \in Requests : UploadInsertSession(r)
    \/ \E r \in Requests : UploadStore(r, SeqOutcomes, SeqFaults)
    \/ \E r \in Requests : UploadInsertVersion(r, SeqOutcomes, SeqFaults)
    \/ \E r \in Requests : ReceiveEdit(r, IntentEditBodies, MaxInFlight)
    \/ \E r \in Requests : EditGetVersion(r)
    \/ \E r \in Requests : EditGetSession1(r)
    \/ \E r \in Requests : EditGetSession2(r)
    \/ \E r \in Requests : EditCreateSession(r)
    \/ \E r \in Requests : EditFetchImages(r, SeqOutcomes, SeqFaults)
    \/ \E r \in Requests : EditGenerate(r, SeqOutcomes, SeqFaults)
    \/ \E r \in Requests : EditStore(r, SeqOutcomes, SeqFaults)
    \/ \E r \in Requests : EditInsertVersion(r, SeqOutcomes, SeqFaults)
    \/ \E r \in Requests : EditSaveHistory(r, SeqOutcomes, SeqFaults)

SpecIntent == InitIntent /\ [][NextIntent]_vars

(***************************************************************************)
(* A session close to the cap of its history, edited by callers of whom    *)
(* two may be in flight, while the history column may be damaged from      *)
(* outside the worker.                                                      *)
(***************************************************************************)
HistRequests == 3
\* the edits made on the session before the behaviour starts
PriorEdits == 9

\* a party other than the worker overwrites the history column of a session
\* with a text that is not JSON: the old text cut short
CorruptHistory ==
    /\ \E i \in 1..Len(prompt_sessions) :
        /\ WellFormedJSON(prompt_sessions[i].history)
        /\ prompt_sessions' = [prompt_sessions EXCEPT ![i].history =
                [form |-> "truncated", value |-> prompt_sessions[i].history.value]]
    /\ UNCHANGED <<image_versions, store, pc, locals, response, effects, structured>>

PriorUpload ==
    [route |-> "upload", multipart |-> TRUE, file |-> TRUE,
     design_intent |-> "modern kitchen", base_prompt |-> Undefined,
     aspect_ratio |-> Undefined]

PriorEdit == EditBody(<<2>>, "add skylight", Undefined, NULL, 1)

PriorResponse == [state |-> "ok", parts |-> OracleParts("image")]

\* the history of session 1 after this many of the edits
RECURSIVE PriorHistory(_)
PriorHistory(k) ==
    IF k = 0 THEN << >>
    ELSE trimHistory(updatedHistoryOf(
            [SessionRow(1, "modern kitchen") EXCEPT
                !.history = JSONstringify(PriorHistory(k - 1))],
            PriorEdit, PriorResponse))

\* the state after the upload (session 1, image 2, version 3) and PriorEdits
\* edits naming session 1, one after the other (image 2j+2, version 2j+3)
PriorState ==
    /\ images = (2 :> "file") @@ [i \in {2 * j + 2 : j \in 1..PriorEdits} |-> "render"]
    /\ now = 0
    /\ lastId = 2 * PriorEdits + 3
    /\ image_versions =
         << UploadVersionRow(3, PriorUpload, 1, 2) >>
         \o [j \in 1..PriorEdits |->
                EditVersionRow(2 * j + 3, PriorEdit, NoVersion,
                               SessionRow(1, "modern kitchen"), 2 * j + 2, PriorResponse)]
    /\ prompt_sessions =
         << [SessionRow(1, "modern kitchen") EXCEPT
                !.history = JSONstringify(PriorHistory(PriorEdits))] >>

InitHist ==
    /\ PriorState
    /\ pc = [r \in 1..HistRequests |-> "idle"]
    /\ body = [r \in 1..HistRequests |-> NoBody]
    /\ previousVersion = [r \in 1..HistRequests |-> NoVersion]
    /\ session = [r \in 1..HistRequests |-> NoSession]
    /\ aiResponse = [r \in 1..HistRequests |-> NoResponse]
    /\ uploadResult = [r \in 1..HistRequests |-> NoUpload]
    /\ versionId = [r \in 1..HistRequests |-> NULL]
    /\ response = [r \in 1..HistRequests |-> Pending]
    /\ effects = [r \in 1..HistRequests |-> {}]
    /\ IMAGES = << >>
    /\ loop = [r \in 1..HistRequests |-> NoLoop]

\* edits that name the session
HistEditBodies ==
    {EditBody(<<i>>, p, Undefined, NULL, sid) :
        i \in FirstImage, p \in {"Patio view", "add skylight"}, sid \in SessionIds}

NextHist ==
    \/ \E r \in Requests : ReceiveEdit(r, HistEditBodies, MaxInFlight)
    \/ \E r \in Requests : EditGetSession2(r)
    \/ \E r \in Requests : EditFetchImages(r, SeqOutcomes, SeqFaults)
    \/ \E r \in Requests : EditGenerate(r, SeqOutcomes, SeqFaults)
    \/ \E r \in Requests : EditStore(r, SeqOutcomes, SeqFaults)
    \/ \E r \in Requests : EditInsertVersion(r, SeqOutcomes, SeqFaults)
    \/ \E r \in Requests : EditSaveHistory(r, SeqOutcomes, SeqFaults)
    \/ CorruptHistory

SpecHist == InitHist /\ [][NextHist]_vars

(***************************************************************************)
(* The /edit worker under structured edit requests, one at a time: a       *)
(* caller cites an image id it was given before, or one nobody was given.  *)
(* The store is empty at first, so the first request can complete no photo *)
(* operation; its plan uploads are what later requests work on.            *)
(***************************************************************************)
StructRequests == 2
\* the longest list of photo operations in a request
MaxOps == 3

\* a render and a local edit of a known angle, an operation the worker does
\* not know, a render without an angle, a local edit of an unknown angle
PhotoOps ==
    {[op |-> "render_angle", angle_id |-> "north", instruction |-> Undefined],
     [op |-> "local_edit", angle_id |-> "north", instruction |-> "add skylight"],
     [op |-> "compare_with", angle_id |-> Undefined, instruction |-> Undefined],
     [op |-> "render_angle", angle_id |-> Undefined, instruction |-> Undefined],
     [op |-> "local_edit", angle_id |-> "south", instruction |-> "add skylight"]}

PhotoOpLists == UNION {[1..n -> PhotoOps] : n \in 0..MaxOps}

\* the image ids the worker has given to callers so far
ReturnedIds ==
    UNION {Range(response[r].result.versioning.new_image_ids) :
              r \in {q \in Requests : pc[q] = "done" /\ body[q].route = "/edit"}}

StructBody(currentId, ops) ==
    [route |-> "/edit", json |-> TRUE, valid |-> TRUE,
     client_request_id |-> "uuid", base_prompt |-> "modern kitchen",
     baseline_image_id |-> UnknownId, current_image_id |-> currentId,
     floor_plan_asset |-> [type |-> "svg", value |-> "<svg></svg>"],
     floor_plan_ops |-> << [op |-> "extend_wall"] >>,
     angles |-> << [id |-> "north", camera |-> "camera"] >>,
     photo_ops |-> ops]

\* every list of operations on an id the caller was given; at most one
\* operation on an id nobody was given
StructBodies ==
    {StructBody(id, ops) : id \in ReturnedIds, ops \in PhotoOpLists}
    \cup {StructBody(UnknownId, ops) : ops \in {l \in PhotoOpLists : Len(l) <= 1}}
    \cup {[route |-> "/edit", json |-> FALSE, valid |-> FALSE],
          [route |-> "/edit", json |-> TRUE, valid |-> FALSE]}

StructOutcomes == [store |-> {"ok", "throw"}, fetch |-> {"ok", "throw"}]

InitStruct == InitWith(StructRequests)

NextStruct ==
    \/ \E r \in Requests : ReceiveStructured(r, StructBodies, 1)
    \/ \E r \in Requests : StructPlanPreview(r, StructOutcomes, MaxFaults)
    \/ \E r \in Requests : StructPlanArchival(r, StructOutcomes, MaxFaults)
    \/ \E r \in Requests : StructOp(r, StructOutcomes, MaxFaults)
    \/ \E r \in Requests : StructPreview(r, StructOutcomes, MaxFaults)
    \/ \E r \in Requests : StructArchival(r, StructOutcomes, MaxFaults)

SpecStruct == InitStruct /\ [][NextStruct]_vars

(***************************************************************************)
(* Properties.                                                             *)
(***************************************************************************)
\* the row of a version, the stored history of a session
VersionRowOf(id) == image_versions[CHOOSE i \in 1..Len(image_versions) :
                                        image_versions[i].id = id]
StoredHistory(sid) == parseHistory(getSessionById(sid).history)

\* the errors of an upstream failure: the oracle call fails, its response has
\* no image part, the image store write fails
UpstreamErrors == {ErrOracle, ErrNoParts, ErrNoImage, ErrStore}

Ended(r, route) == pc[r] = "done" /\ body[r].route = route
Succeeded(r, route) == Ended(r, route) /\ response[r].status = 200

\* C1: an edit that ends in an upstream failure (oracle call failed, no image
\* part in the response, image store write failed) has answered with an error
\* status, has inserted no Version row and has written no Session history.
C1_FailedEditWritesNoVersionNoHistory ==
    \A r \in Requests :
        (Ended(r, "edit") /\ response[r].error \in UpstreamErrors)
        => /\ response[r].status \in {500, 502}
           /\ Wrote(r, "version") = {}
           /\ Wrote(r, "history") = {}
           /\ \A i \in 1..Len(image_versions) :
                image_versions[i].metadata.cloudflare_image_id \notin Wrote(r, "image")

\* an edit on an existing session, with versions already there, failed at the
\* image store after the oracle had answered
C1_Witness ==
    \E r \in Requests :
        /\ Ended(r, "edit") /\ response[r].error = ErrStore
        /\ body[r].session_id \in SessionIds
        /\ image_versions # << >>

\* C2: an upstream failure in the upload path or in the edit path leaves
\* nothing behind: the request has inserted no Session row, no Version row and
\* has written no history.
C2_UpstreamFailureLeavesNoRow ==
    \A r \in Requests :
        (pc[r] = "done" /\ body[r].route \in {"upload", "edit"}
            /\ response[r].error \in UpstreamErrors)
        => /\ Wrote(r, "session") = {}
           /\ Wrote(r, "version") = {}
           /\ Wrote(r, "history") = {}

\* C3: every Version row references an image that Cloudflare Images holds.
C3_VersionReferencesStoredImage ==
    \A i \in 1..Len(image_versions) :
        /\ image_versions[i].metadata.cloudflare_image_id \in DOMAIN images
        /\ image_versions[i].image_url
             = publicUrl(image_versions[i].metadata.cloudflare_image_id)

\* a root and an edit exist, and some request lost its image store write
C3_Witness ==
    /\ \E i, j \in 1..Len(image_versions) :
        image_versions[i].parent_id = NULL /\ image_versions[j].parent_id # NULL
    /\ \E r \in Requests : pc[r] = "done" /\ response[r].error = ErrStore

\* C4: the history an edit stores has at most 20 turns; it is what the edit
\* read, then its user turn, then its model turn, and when that is more than
\* 20 turns it is the last 20 of them in their order, the oldest dropped.
C4_HistoryKeepsLatestTwenty ==
    [][/\ \A i \in 1..Len(prompt_sessions') :
            Len(parseHistory(prompt_sessions'[i].history)) <= 20
       /\ \A r \in Requests :
            (pc[r] = "e_saveHistory" /\ pc'[r] = "done" /\ response'[r].status = 200)
            => LET sid  == session[r].id
                   full == parseHistory(session[r].history)
                             \o << userMessage(body[r]), modelMessage(aiResponse[r]) >>
                   new  == parseHistory(
                              prompt_sessions'[CHOOSE i \in 1..Len(prompt_sessions') :
                                                  prompt_sessions'[i].id = sid].history)
                   drop == IF Len(full) > 20 THEN Len(full) - 20 ELSE 0
               IN /\ Len(new) = Len(full) - drop
                  /\ \A k \in 1..Len(new) : new[k] = full[drop + k]
      ]_vars

\* twelve edits of one session are through: the history is full, ends with
\* the turns of the last edit and no longer begins with those of the first
C4_Witness ==
    \E i \in 1..Len(prompt_sessions) :
        LET h == parseHistory(prompt_sessions[i].history)
            edits == {r \in Requests : Succeeded(r, "edit")
                                        /\ body[r].session_id = prompt_sessions[i].id}
            first == CHOOSE r \in edits : \A q \in edits : r <= q
            last  == CHOOSE r \in edits : \A q \in edits : r >= q
        IN /\ Cardinality(edits) >= 12
           /\ Len(h) = 20
           /\ h[19] = userMessage(body[last])
           /\ h[1] # userMessage(body[first])
           /\ h[1].role = "user"

\* C5: the history write of an edit replaces the stored history by what that
\* edit read plus its own two turns; when another edit on the same Session has
\* appended its turns in between, those turns are gone after the write.
C5_LastWriterOverwritesHistory ==
    [][\A w \in Requests :
        (pc[w] = "e_saveHistory" /\ pc'[w] = "done" /\ response'[w].status = 200)
        => LET sid  == session[w].id
               read == parseHistory(session[w].history)
               cur  == StoredHistory(sid)
               new  == parseHistory(
                          prompt_sessions'[CHOOSE i \in 1..Len(prompt_sessions') :
                                              prompt_sessions'[i].id = sid].history)
           IN /\ new = trimHistory(read \o << userMessage(body[w]),
                                             modelMessage(aiResponse[w]) >>)
              /\ \A l \in Requests \ {w} :
                    ( /\ Succeeded(l, "edit")
                      /\ VersionRowOf(response[l].version_id).chat_id = sid
                      /\ Len(cur) = Len(read) + 2
                      /\ cur[Len(read) + 1] = userMessage(body[l])
                      /\ userMessage(body[l]) # userMessage(body[w])
                      /\ userMessage(body[l]) \notin Range(read) )
                    => userMessage(body[l]) \notin Range(new)
      ]_vars

\* two edits on one Session both succeeded and both Versions exist, but the
\* stored history holds the turns of one of them only
C5_Witness ==
    \E w, l \in Requests :
        /\ w # l /\ Succeeded(w, "edit") /\ Succeeded(l, "edit")
        /\ {response[w].version_id, response[l].version_id} \subseteq VersionIds
        /\ VersionRowOf(response[w].version_id).chat_id
             = VersionRowOf(response[l].version_id).chat_id
        /\ LET h == StoredHistory(VersionRowOf(response[w].version_id).chat_id)
           IN /\ Len(h) = 2
              /\ h[1] = userMessage(body[w])
              /\ userMessage(body[l]) \notin Range(h)

\* C6: edits that cite the same parent Version and succeed have each inserted
\* a Version of its own, with that parent; Version ids are never shared.
C6_SiblingsAreDistinct ==
    /\ \A i, j \in 1..Len(image_versions) :
        i # j => image_versions[i].id # image_versions[j].id
    /\ \A r \in Requests :
        (pc[r] = "e_saveHistory" \/ Succeeded(r, "edit"))
        => LET vid == IF pc[r] = "done" THEN response[r].version_id ELSE versionId[r]
           IN /\ vid \in VersionIds
              /\ body[r].previous_version_id \in VersionIds
                    => VersionRowOf(vid).parent_id = body[r].previous_version_id
    /\ \A r1, r2 \in Requests :
        (r1 # r2 /\ Succeeded(r1, "edit") /\ Succeeded(r2, "edit"))
        => response[r1].version_id # response[r2].version_id

\* two edits citing one parent overlapped: the one that inserted its Version
\* second has answered while the other still stands before its history write
C6_Witness ==
    \E r1, r2 \in Requests :
        /\ Succeeded(r1, "edit") /\ pc[r2] = "e_saveHistory"
        /\ body[r1].previous_version_id \in VersionIds
        /\ body[r2].previous_version_id = body[r1].previous_version_id
        /\ VersionRowOf(versionId[r2]).parent_id = body[r1].previous_version_id
        /\ VersionRowOf(response[r1].version_id).parent_id = body[r1].previous_version_id
        /\ \E i, j \in 1..Len(image_versions) :
            /\ i < j
            /\ image_versions[i].id = versionId[r2]
            /\ image_versions[j].id = response[r1].version_id

\* C7: the parent_id of every Version is null or the id of a Version inserted
\* before it; so no Version is its own ancestor.
C7_ParentExistsEarlier ==
    \A i \in 1..Len(image_versions) :
        \/ image_versions[i].parent_id = NULL
        \/ \E j \in 1..(i - 1) :
            /\ image_versions[j].id = image_versions[i].parent_id
            /\ image_versions[j].created_at <= image_versions[i].created_at

\* a chain of three Versions: a root, its child, its grandchild
C7_Witness ==
    \E i, j, k \in 1..Len(image_versions) :
        /\ image_versions[i].parent_id = NULL
        /\ image_versions[j].parent_id = image_versions[i].id
        /\ image_versions[k].parent_id = image_versions[j].id

\* C8: no step removes or changes a Version row.
C8_VersionsWriteOnce ==
    [][/\ Range(image_versions) \subseteq Range(image_versions')
       /\ Len(image_versions') >= Len(image_versions)
       /\ \A i \in 1..Len(image_versions) : image_versions'[i] = image_versions[i]
      ]_vars

\* a root with a child whose edit has written the history, and a lineage
\* query answered after both
C8_Witness ==
    /\ \E i, j \in 1..Len(image_versions) :
        image_versions[j].parent_id = image_versions[i].id
    /\ \E r \in Requests : Succeeded(r, "edit") /\ Wrote(r, "history") # {}
    /\ \E r \in Requests : Ended(r, "history") /\ Len(response[r].versions) = 2

\* C9: an edit that got past session resolution works on (1) the Session of
\* the previous Version when that Version exists and has one, whatever else
\* the request names; (2) else the Session of the explicit session id; (3) else
\* a Session it created with the request's design intent; and (4) an edit
\* with none of the three is rejected with nothing written.
PastResolution(r) == body[r].route = "edit" /\ pc[r] \in Range(EditOrder)

C9_SessionPrecedence ==
    \A r \in Requests :
        LET b == body[r] IN
        /\ PastResolution(r) =>
            IF b.previous_version_id \in VersionIds
               /\ VersionRowOf(b.previous_version_id).chat_id # NULL
            THEN /\ session[r].id = VersionRowOf(b.previous_version_id).chat_id
                 /\ Wrote(r, "session") = {}
            ELSE IF b.session_id \in SessionIds
            THEN /\ session[r].id = b.session_id
                 /\ Wrote(r, "session") = {}
            ELSE IF b.session_id = NULL
            THEN /\ Truthy(b.base_prompt)
                 /\ Wrote(r, "session") = {session[r].id}
                 /\ session[r].id \in SessionIds
                 /\ getSessionById(session[r].id).base_prompt = b.base_prompt
            ELSE TRUE
        /\ (Ended(r, "edit") /\ response[r].error = ErrNoSession)
              => response[r].status = 400 /\ effects[r] = {}
        /\ (Ended(r, "edit") /\ b.json /\ Len(b.image_ids) > 0 /\ Truthy(b.edit_prompt)
              /\ b.previous_version_id = NULL /\ b.session_id = NULL
              /\ ~Truthy(b.base_prompt))
              => response[r].error = ErrNoSession

\* an edit past resolution that cites a Version of one Session, names another
\* existing Session explicitly and carries a design intent as well
C9_Witness ==
    \E r \in Requests :
        /\ PastResolution(r)
        /\ body[r].previous_version_id \in VersionIds
        /\ body[r].session_id \in SessionIds
        /\ body[r].session_id # VersionRowOf(body[r].previous_version_id).chat_id
        /\ Truthy(body[r].base_prompt)

\* C10: an edit whose explicit session id names no Session, and whose previous
\* Version gives none, fails with a not-found result: it creates no Session
\* and does not go on to the oracle.
C10_UnknownSessionIsNotFound ==
    \A r \in Requests :
        ( /\ body[r].route = "edit" /\ body[r].json
          /\ body[r].session_id # NULL /\ body[r].session_id \notin SessionIds
          /\ body[r].previous_version_id \notin VersionIds )
        => /\ pc[r] \notin {"e_createSession"} \cup Range(EditOrder)
           /\ Wrote(r, "session") = {}
           /\ pc[r] = "done" => response[r].status = 404

\* the Version rows a request has inserted
RowsOf(r) == {i \in 1..Len(image_versions) : image_versions[i].id \in Wrote(r, "version")}

\* C11: an edit whose previous_version_id names no Version is answered with a
\* not-found result and inserts no Version; it does not go on as an edit
\* without a previous version.
C11_UnknownPreviousVersionIsNotFound ==
    \A r \in Requests :
        ( /\ body[r].route = "edit" /\ body[r].json
          /\ Len(body[r].image_ids) > 0 /\ Truthy(body[r].edit_prompt)
          /\ body[r].previous_version_id = UnknownId )
        => /\ pc[r] \notin {"e_getSession2", "e_createSession"} \cup Range(EditOrder)
           /\ Wrote(r, "version") = {}
           /\ pc[r] = "done" => response[r].status = 404

\* C12: a Version without a parent is a root that the upload path made, with
\* no edit instruction; a Version that the edit path made has a parent.
C12_RootsAreUploads ==
    /\ \A i \in 1..Len(image_versions) :
        image_versions[i].parent_id = NULL
        => /\ image_versions[i].edit_prompt = Undefined
           /\ image_versions[i].metadata.edit_instruction = Undefined
           /\ \E r \in Requests : body[r].route = "upload" /\ i \in RowsOf(r)
    /\ \A r \in Requests :
        body[r].route = "edit"
        => \A i \in RowsOf(r) : image_versions[i].parent_id # NULL

\* the number of parent_id steps from a Version up to another, -1 if the
\* second is not the first or one of its ancestors
RECURSIVE StepsUp(_, _, _)
StepsUp(vid, id, fuel) ==
    IF vid = id THEN 0
    ELSE IF fuel = 0 \/ vid \notin VersionIds THEN 0 - 1
    ELSE LET up == StepsUp(VersionRowOf(vid).parent_id, id, fuel - 1)
         IN IF up < 0 THEN up ELSE up + 1

DepthBelow(vid, id) == StepsUp(vid, id, Len(image_versions))

\* the request is answered in this step by the handler of the route
Answers(r, route) == pc[r] = "idle" /\ pc'[r] = "done" /\ body'[r].route = route

\* C13: the lineage of an existing Version is that Version and all Versions
\* below it, each once and no other; the Version itself comes first, depths
\* never decrease along the answer, and a childless Version gives itself only.
C13_LineageIsSubtree ==
    [][\A r \in Requests :
        (Answers(r, "history") /\ body'[r].id \in VersionIds)
        => LET id  == body'[r].id
               out == response'[r].versions
           IN /\ response'[r].status = 200
              /\ Range(out) = {v \in VersionIds : DepthBelow(v, id) >= 0}
              /\ \A i, j \in 1..Len(out) : i # j => out[i] # out[j]
              /\ out[1] = id
              /\ \A i, j \in 1..Len(out) :
                    i < j => DepthBelow(out[i], id) <= DepthBelow(out[j], id)
              /\ (\A k \in 1..Len(image_versions) : image_versions[k].parent_id # id)
                    => out = <<id>>
      ]_vars

\* a lineage was asked of a Version that has a parent, a sibling, a child
\* and a grandchild: the answer holds the Version and the two below it
C13_Witness ==
    \E r \in Requests :
        /\ Ended(r, "history") /\ body[r].id \in VersionIds
        /\ Len(response[r].versions) = 3
        /\ Len(image_versions) = 5
        /\ VersionRowOf(body[r].id).parent_id # NULL
        /\ \E s \in VersionIds \ {body[r].id} :
            VersionRowOf(s).parent_id = VersionRowOf(body[r].id).parent_id
        /\ DepthBelow(response[r].versions[3], body[r].id) = 2

\* C14: in a lineage, of two Versions at the same depth the one created
\* earlier comes first.
C14_SameDepthByCreation ==
    \A r \in Requests :
        (Ended(r, "history") /\ response[r].status = 200)
        => LET out == response[r].versions
           IN \A i, j \in 1..Len(out) :
                (i < j /\ DepthBelow(out[i], body[r].id) = DepthBelow(out[j], body[r].id))
                => VersionRowOf(out[i]).created_at <= VersionRowOf(out[j]).created_at

\* C15: the latest render of an angle is a Version tagged with the angle
\* whose creation time no Version so tagged exceeds; when no Version carries
\* the angle the answer is not-found, whatever untagged Versions there are.
C15_LatestOfAngle ==
    [][\A r \in Requests :
        (Answers(r, "render-angle") /\ Truthy(body'[r].angle_id))
        => LET tagged == {i \in 1..Len(image_versions) :
                            image_versions[i].metadata.angle_id = body'[r].angle_id}
           IN IF tagged = {}
              THEN response'[r].status = 404 /\ response'[r].version_id = NULL
              ELSE /\ response'[r].status = 200
                   /\ \E i \in tagged :
                        /\ image_versions[i].id = response'[r].version_id
                        /\ \A j \in tagged : image_versions[j].created_at
                                                <= image_versions[i].created_at
      ]_vars

\* two patio renders of different times and untagged Versions exist; the
\* patio query got the later render and the kitchen query got not-found
C15_Witness ==
    \E r1, r2 \in Requests :
        /\ Ended(r1, "render-angle") /\ response[r1].status = 200
        /\ Ended(r2, "render-angle") /\ response[r2].status = 404
        /\ body[r2].angle_id = "kitchen"
        /\ \E i \in 1..Len(image_versions) :
            /\ image_versions[i].metadata.angle_id = body[r1].angle_id
            /\ image_versions[i].created_at
                 < VersionRowOf(response[r1].version_id).created_at
        /\ \E i \in 1..Len(image_versions) :
            image_versions[i].metadata.angle_id = Undefined

\* C16: two queries for the latest render of one angle, both made after the
\* last Version was inserted (requests being served one after the other in
\* the order of their numbers), are answered with the same Version, also
\* when Versions of that angle share their creation time.
C16_LatestIsDeterministic ==
    \A r1, r2 \in Requests :
        ( /\ Ended(r1, "render-angle") /\ response[r1].status = 200
          /\ Ended(r2, "render-angle") /\ response[r2].status = 200
          /\ body[r1].angle_id = body[r2].angle_id
          /\ \A q \in Requests : Wrote(q, "version") # {} => (q < r1 /\ q < r2) )
        => response[r1].version_id = response[r2].version_id

\* C17: a successful upload has inserted one Session and one root Version; a
\* successful edit has inserted one Version; an edit has inserted a Session
\* only if neither its previous Version nor its explicit session id led to a
\* Session that was there; and no row is there that no request inserted.
C17_ExactlyOneCreation ==
    /\ \A r \in Requests :
        Succeeded(r, "upload")
        => /\ Cardinality(Wrote(r, "session")) = 1
           /\ Cardinality(RowsOf(r)) = 1
           /\ Wrote(r, "session") \subseteq SessionIds
           /\ Wrote(r, "version") = {response[r].version_id}
           /\ \A i \in RowsOf(r) : /\ image_versions[i].parent_id = NULL
                                   /\ image_versions[i].chat_id \in Wrote(r, "session")
    /\ \A r \in Requests :
        Succeeded(r, "edit")
        => /\ Cardinality(RowsOf(r)) = 1
           /\ Wrote(r, "version") = {response[r].version_id}
    /\ \A r \in Requests :
        (body[r].route = "edit" /\ Wrote(r, "session") # {})
        => /\ Cardinality(Wrote(r, "session")) = 1
           /\ ~ ( /\ body[r].previous_version_id \in VersionIds
                  /\ VersionRowOf(body[r].previous_version_id).chat_id \in SessionIds )
           /\ body[r].session_id \notin SessionIds
    /\ Len(prompt_sessions) = Cardinality(UNION {Wrote(r, "session") : r \in Requests})
    /\ Len(image_versions) = Cardinality(UNION {Wrote(r, "version") : r \in Requests})

\* an upload, an edit that named the Session of the upload and a design
\* intent as well, and an edit that had only a design intent all succeeded
C17_Witness ==
    \E u, e1, e2 \in Requests :
        /\ Succeeded(u, "upload") /\ Succeeded(e1, "edit") /\ Succeeded(e2, "edit")
        /\ body[e1].session_id \in Wrote(u, "session")
        /\ Truthy(body[e1].base_prompt)
        /\ Wrote(e1, "session") = {}
        /\ Cardinality(Wrote(e2, "session")) = 1
        /\ Len(prompt_sessions) = 2 /\ Len(image_versions) = 3

\* C18: no step removes a Session or changes its design intent, system
\* instruction or intent hash; a step that changes a history is the history
\* write of an edit on that Session and stores the whole sequence the edit
\* has put together.
C18_SessionFieldsFixed ==
    [][/\ Len(prompt_sessions') >= Len(prompt_sessions)
       /\ \A i \in 1..Len(prompt_sessions) :
            LET old == prompt_sessions[i]
                new == prompt_sessions'[i]
            IN /\ new.id = old.id
               /\ new.base_prompt = old.base_prompt
               /\ new.system_prompt = old.system_prompt
               /\ new.base_prompt_hash = old.base_prompt_hash
               /\ new.history # old.history
                    => \E r \in Requests :
                        /\ pc[r] = "e_saveHistory" /\ pc'[r] = "done"
                        /\ session[r].id = old.id
                        /\ new.history = JSONstringify(trimHistory(
                              parseHistory(session[r].history)
                                \o << userMessage(body[r]), modelMessage(aiResponse[r]) >>))
      ]_vars

\* two Sessions: one has had its history written, the other still has the
\* empty history of its creation
C18_Witness ==
    \E i, j \in 1..Len(prompt_sessions) :
        /\ Len(parseHistory(prompt_sessions[i].history)) = 2
        /\ prompt_sessions[j].history = JSONstringify(<< >>)
        /\ \E r \in Requests : Succeeded(r, "edit") /\ Wrote(r, "history") = {prompt_sessions[i].id}

\* a hint that is not empty after trimming whitespace
UsableHint(h) ==
    /\ h # Undefined
    /\ \E k \in 1..Len(Chars(h)) : Chars(h)[k] \notin {" ", "\t", "\n"}

\* C19: an edit with a hint that is not empty after trimming is tagged with
\* the hint exactly as the request gave it, whatever the instruction says.
C19_HintVerbatim ==
    \A r \in Requests :
        (body[r].route = "edit" /\ body[r].json /\ UsableHint(body[r].camera_hint))
        => \A i \in RowsOf(r) :
            image_versions[i].metadata.angle_id = body[r].camera_hint

\* the keywords in their declared order, and the label of each
DeclaredKeywords ==
    <<"north", "patio", "south", "east", "west", "stairs", "entry", "foyer",
      "kitchen", "living", "exterior">>
LabelOf(keyword) == IF keyword = "foyer" THEN "entry" ELSE keyword

Occurs(keyword, text) == includes(toLowerCase(Chars(text)), Chars(keyword))

\* C20: an edit without a usable hint is tagged with the label of the first
\* keyword, in declared order, that occurs in the instruction, upper or lower
\* case; it is not tagged when no keyword occurs.
C20_FirstDeclaredKeyword ==
    \A r \in Requests :
        (body[r].route = "edit" /\ body[r].json /\ ~UsableHint(body[r].camera_hint))
        => \A i \in RowsOf(r) :
            LET angle == image_versions[i].metadata.angle_id
                text  == body[r].edit_prompt
            IN /\ \A n \in 1..Len(DeclaredKeywords) :
                    ( /\ Occurs(DeclaredKeywords[n], text)
                      /\ \A m \in 1..(n - 1) : ~Occurs(DeclaredKeywords[m], text) )
                    => angle = LabelOf(DeclaredKeywords[n])
               /\ (\A n \in 1..Len(DeclaredKeywords) : ~Occurs(DeclaredKeywords[n], text))
                    => angle = Undefined

\* "WEST of the patio" with a blank hint was tagged patio, though west comes
\* first in the text; "exterior north" without a hint was tagged north,
\* though exterior comes first and is longer
C20_Witness ==
    \E r1, r2 \in Requests :
        /\ body[r1].route = "edit" /\ body[r2].route = "edit"
        /\ body[r1].edit_prompt = "WEST of the patio" /\ body[r1].camera_hint = "   "
        /\ body[r2].edit_prompt = "exterior north" /\ body[r2].camera_hint = Undefined
        /\ \E i \in RowsOf(r1) : image_versions[i].metadata.angle_id = "patio"
        /\ \E i \in RowsOf(r2) : image_versions[i].metadata.angle_id = "north"

\* the requests that have uploaded or edited, or are about to
Makers == {r \in Requests : body[r].route \in {"upload", "edit"}}

\* the upload of the scenario and its first edit have succeeded
AfterFirstEdit(u, e1) ==
    /\ Succeeded(u, "upload") /\ body[u].design_intent = "modern kitchen"
    /\ Succeeded(e1, "edit")
    /\ body[e1].previous_version_id = response[u].version_id
    /\ body[e1].edit_prompt = "render the patio view"

\* and its second edit as well
AfterSecondEdit(u, e1, e2) ==
    /\ AfterFirstEdit(u, e1)
    /\ Succeeded(e2, "edit") /\ e1 < e2
    /\ body[e2].previous_version_id = response[u].version_id
    /\ body[e2].edit_prompt = "add a skylight"

\* C21: after the upload with intent "modern kitchen" (V1), the edit of V1
\* with "render the patio view" (V2) and the edit of V1 with "add a skylight"
\* (V3): V1 is a root, V2 and V3 are children of V1 in the Session of V1, V2
\* is tagged patio and V3 is not tagged; the patio render is V2; the lineage
\* of V1 is V1 and then V2 and V3, and it is V1, V2 after the first edit only.
C21_Scenario ==
    [][\A u, e1 \in Requests :
        AfterFirstEdit(u, e1)
        => LET V1 == response[u].version_id
               V2 == response[e1].version_id
           IN /\ VersionRowOf(V1).parent_id = NULL
              /\ VersionRowOf(V1).base_prompt = "modern kitchen"
              /\ VersionRowOf(V2).parent_id = V1
              /\ VersionRowOf(V2).chat_id = VersionRowOf(V1).chat_id
              /\ VersionRowOf(V2).metadata.angle_id = "patio"
              /\ \A q \in Requests :
                    (Makers = {u, e1} /\ Answers(q, "history") /\ body'[q].id = V1)
                    => response'[q].versions = <<V1, V2>>
              /\ \A q \in Requests :
                    (Makers = {u, e1} /\ Answers(q, "render-angle"))
                    => response'[q].status = 200 /\ response'[q].version_id = V2
              /\ \A e2 \in Requests :
                    AfterSecondEdit(u, e1, e2)
                    => LET V3 == response[e2].version_id
                       IN /\ V3 \notin {V1, V2}
                          /\ VersionRowOf(V3).parent_id = V1
                          /\ VersionRowOf(V3).chat_id = VersionRowOf(V1).chat_id
                          /\ VersionRowOf(V3).metadata.angle_id = Undefined
                          /\ \A q \in Requests :
                                (Makers = {u, e1, e2} /\ Answers(q, "render-angle"))
                                => /\ response'[q].status = 200
                                   /\ response'[q].version_id = V2
                          /\ \A q \in Requests :
                                ( /\ Makers = {u, e1, e2}
                                  /\ Answers(q, "history") /\ body'[q].id = V1 )
                                => LET out == response'[q].versions
                                   IN /\ Len(out) = 3
                                      /\ out[1] = V1
                                      /\ {out[2], out[3]} = {V2, V3}
                                      /\ DepthBelow(V2, V1) = 1
                                      /\ DepthBelow(V3, V1) = 1
      ]_vars

\* the whole scenario has run: the lineage of V1 was asked after the first
\* edit and after the second, and the patio render after the second
C21_Witness ==
    \E u \in Requests : \E e1 \in Requests :
        /\ AfterFirstEdit(u, e1)
        /\ \E e2 \in Requests :
            /\ AfterSecondEdit(u, e1, e2)
            /\ Makers = {u, e1, e2}
            /\ \E h1 \in Requests :
                /\ e1 < h1 /\ h1 < e2
                /\ Ended(h1, "history") /\ body[h1].id = response[u].version_id
                /\ response[h1].versions
                     = <<response[u].version_id, response[e1].version_id>>
            /\ \E g \in Requests :
                /\ e2 < g /\ Ended(g, "render-angle")
                /\ response[g].version_id = response[e1].version_id
            /\ \E h2 \in Requests :
                /\ e2 < h2 /\ Ended(h2, "history")
                /\ body[h2].id = response[u].version_id
                /\ Len(response[h2].versions) = 3

\* how often a turn stands in a history
CountOf(turn, history) == Cardinality({k \in 1..Len(history) : history[k] = turn})

\* two successful edits with the same request body on the same Session
Twins(e1, e2) ==
    /\ e1 # e2 /\ Succeeded(e1, "edit") /\ Succeeded(e2, "edit")
    /\ body[e1] = body[e2]
    /\ VersionRowOf(response[e1].version_id).chat_id
         = VersionRowOf(response[e2].version_id).chat_id

\* C22 as stated: the same edit submitted twice, both successful, has made
\* two Versions with different ids and the stored history holds its user turn
\* twice.
C22_DuplicateAppendsTwice ==
    \A e1, e2 \in Requests :
        Twins(e1, e2)
        => /\ response[e1].version_id # response[e2].version_id
           /\ {response[e1].version_id, response[e2].version_id} \subseteq VersionIds
           /\ CountOf(userMessage(body[e1]),
                      StoredHistory(VersionRowOf(response[e1].version_id).chat_id)) >= 2

\* C22 amended: the same edit submitted twice, both successful, makes two
\* Versions with different ids; when the second has read the history with the
\* turns of the first in it, its history write stores the user turn a second
\* time.  (When it read the history before the first wrote, its write
\* replaces that of the first and the turn is stored once.)
C22_DuplicateMakesSecondVersion ==
    [][\A e1, e2 \in Requests :
        ( /\ pc[e2] = "e_saveHistory" /\ pc'[e2] = "done" /\ response'[e2].status = 200
          /\ e1 # e2 /\ Succeeded(e1, "edit") /\ body[e1] = body[e2]
          /\ VersionRowOf(response[e1].version_id).chat_id = session[e2].id )
        => /\ versionId[e2] # response[e1].version_id
           /\ response'[e2].version_id = versionId[e2]
           /\ {versionId[e2], response[e1].version_id} \subseteq VersionIds
           /\ VersionRowOf(versionId[e2]).parent_id
                = VersionRowOf(response[e1].version_id).parent_id
           /\ VersionRowOf(versionId[e2]).edit_prompt
                = VersionRowOf(response[e1].version_id).edit_prompt
           /\ userMessage(body[e1]) \in Range(parseHistory(session[e2].history))
                => CountOf(userMessage(body[e2]),
                           parseHistory(
                             prompt_sessions'[CHOOSE i \in 1..Len(prompt_sessions') :
                                prompt_sessions'[i].id = session[e2].id].history)) >= 2
      ]_vars

\* the same edit of the same parent went through twice, one after the
\* other: two Versions, and the history holds user, model, user, model
C22_Witness ==
    \E e1, e2 \in Requests :
        /\ Twins(e1, e2)
        /\ body[e1].previous_version_id \in VersionIds
        /\ response[e1].version_id # response[e2].version_id
        /\ LET h == StoredHistory(VersionRowOf(response[e1].version_id).chat_id)
           IN /\ Len(h) = 4
              /\ h[1] = userMessage(body[e1]) /\ h[3] = userMessage(body[e2])

\* the aspect ratios the oracle supports
SupportedRatios == {"1:1", "3:2", "4:3", "4:5", "16:9", "9:16", "2:3"}

\* the aspect ratio an edit is to use: that of the request if supported, else
\* the one recorded on the parent if there is a parent with one, else none
WantedRatio(b) ==
    IF b.aspect_ratio \in SupportedRatios THEN b.aspect_ratio
    ELSE IF b.previous_version_id \in VersionIds
            /\ VersionRowOf(b.previous_version_id).aspect_ratio # Undefined
         THEN VersionRowOf(b.previous_version_id).aspect_ratio
         ELSE Undefined

\* C23: the aspect ratio an edit gives the oracle and records on its Version
\* is the request's if that is supported, else the parent's recorded one if
\* there is a parent that has one, else none.
C23_EditAspectRatio ==
    \A r \in Requests :
        (body[r].route = "edit" /\ body[r].json)
        => /\ pc[r] = "e_generate"
                => editAspectRatio(body[r], previousVersion[r]) = WantedRatio(body[r])
           /\ \A i \in RowsOf(r) :
                /\ image_versions[i].aspect_ratio = WantedRatio(body[r])
                /\ image_versions[i].metadata.aspect_ratio = WantedRatio(body[r])

\* an edit asked for 7:5, which is not supported, on a parent recorded with
\* 16:9 and got 16:9; an edit of that Version asked for 4:3 and got 4:3
C23_Witness ==
    \E r1, r2 \in Requests :
        /\ Succeeded(r1, "edit") /\ Succeeded(r2, "edit")
        /\ body[r1].aspect_ratio = "7:5"
        /\ body[r1].previous_version_id \in VersionIds
        /\ VersionRowOf(body[r1].previous_version_id).aspect_ratio = "16:9"
        /\ VersionRowOf(response[r1].version_id).aspect_ratio = "16:9"
        /\ body[r2].aspect_ratio = "4:3"
        /\ body[r2].previous_version_id = response[r1].version_id
        /\ VersionRowOf(response[r2].version_id).aspect_ratio = "4:3"

\* C24: the aspect ratio recorded on a Version, and so the one an edit takes
\* over from its parent for the oracle, is none or a supported one.
C24_RecordedRatioSupported ==
    /\ \A i \in 1..Len(image_versions) :
        /\ image_versions[i].aspect_ratio \in SupportedRatios \cup {Undefined}
        /\ image_versions[i].metadata.aspect_ratio \in SupportedRatios \cup {Undefined}
    /\ \A r \in Requests :
        pc[r] = "e_generate"
        => editAspectRatio(body[r], previousVersion[r]) \in SupportedRatios \cup {Undefined}

\* C25: a Version made by an edit on a parent has the design intent and the
\* session of that parent, and the intent hash in the metadata of every
\* Version is the fingerprint of its design intent and the intent hash of
\* its Session.
C25_IntentCarried ==
    \A i \in 1..Len(image_versions) :
        LET row == image_versions[i] IN
        /\ row.chat_id \in SessionIds
        /\ row.metadata.base_prompt_hash = hashString(row.base_prompt)
        /\ row.metadata.base_prompt_hash = getSessionById(row.chat_id).base_prompt_hash
        /\ row.parent_id # NULL
            => /\ row.parent_id \in VersionIds
               /\ row.base_prompt = VersionRowOf(row.parent_id).base_prompt
               /\ row.chat_id = VersionRowOf(row.parent_id).chat_id

\* two sessions of different intents; an edit of a Version of the one cited
\* the other session and a third intent, and its Version has the intent and
\* the session of its parent
C25_Witness ==
    \E r \in Requests :
        /\ Succeeded(r, "edit")
        /\ body[r].previous_version_id \in VersionIds
        /\ body[r].session_id \in SessionIds
        /\ body[r].session_id # VersionRowOf(body[r].previous_version_id).chat_id
        /\ body[r].base_prompt = "patio"
        /\ getSessionById(body[r].session_id).base_prompt
             # VersionRowOf(body[r].previous_version_id).base_prompt
        /\ VersionRowOf(response[r].version_id).parent_id = body[r].previous_version_id
        /\ VersionRowOf(response[r].version_id).base_prompt
             = VersionRowOf(body[r].previous_version_id).base_prompt

\* the Version rows that point at this image of the store
RowsOfImage(imageId) ==
    {i \in 1..Len(image_versions) :
        image_versions[i].metadata.cloudflare_image_id = imageId}

\* C27: when the image of an edit has been stored and the insert of its
\* Version fails, the request ends with an error, no Version row points at
\* that image, the request has changed no Session history, and the image
\* stays in the store.
C27_FailedInsertLeavesOrphan ==
    [][\A r \in Requests :
        ( /\ pc[r] = "e_insertVersion" /\ pc'[r] = "done"
          /\ uploadResult[r].state = "ok" /\ response'[r].status # 200 )
        => /\ response'[r].status = 500
           /\ image_versions' = image_versions
           /\ RowsOfImage(uploadResult[r].id)' = {}
           /\ prompt_sessions' = prompt_sessions
           /\ Wrote(r, "history")' = {}
           /\ images' = images
           /\ uploadResult[r].id \in DOMAIN images'
           /\ uploadResult[r].id \in Wrote(r, "image")']_vars

\* an edit on a session with history ended in the failure of its insert: its
\* image is in the store and no Version row points at it
C27_Witness ==
    \E r \in Requests :
        /\ Ended(r, "edit") /\ response[r].error = ErrDatabase
        /\ Wrote(r, "version") = {}
        /\ \E i \in Wrote(r, "image") : i \in DOMAIN images /\ RowsOfImage(i) = {}
        /\ \E i \in 1..Len(prompt_sessions) :
            parseHistory(prompt_sessions[i].history) # << >>

\* C28: an edit that ended with an error response has added no Version row,
\* whichever step failed; a Version that an ended edit made has its user and
\* model turns written to the Session history.
C28_FailedEditAddsNoVersion ==
    \A r \in Requests :
        Ended(r, "edit")
        => /\ response[r].status # 200 => Wrote(r, "version") = {}
           /\ Wrote(r, "version") # {} => Wrote(r, "history") # {}

\* the session this request loaded has a history that is no JSON text
ReadUnparseable(r) ==
    session[r].id # NULL /\ session[r].history # EmptyString
    /\ ~(session[r].history.form = "json")

\* the stored database is the one an upload and PriorEdits edits leave behind
PriorStateReached == PriorState /\ InFlight = {} /\ Len(image_versions) = PriorEdits + 1

\* C26: an edit whose Session has a history that cannot be parsed goes on
\* with no prior turns: the oracle gets the new user turn alone, and the edit
\* ends with success, its Version inserted and the stored history of the
\* Session being the new user turn and the model turn and nothing else.
C26_UnparseableHistoryRecovered ==
    [][\A r \in Requests :
        ReadUnparseable(r)
        => /\ pc[r] = "e_generate"
                => messagesOf(session[r], body[r]) = << userMessage(body[r]) >>
           /\ pc'[r] = "done"
                => /\ response'[r].status = 200
                   /\ response'[r].version_id \in VersionIds'
                   /\ response'[r].version_id \in Wrote(r, "version")'
                   /\ \E i \in 1..Len(prompt_sessions) :
                        /\ prompt_sessions[i].id = session[r].id
                        /\ prompt_sessions'[i].history =
                             JSONstringify(<< userMessage(body[r]),
                                              modelMessage(aiResponse[r]) >>)]_vars

\* an edit has ended with success on a session whose history is now its two
\* turns alone, while the session has more Versions than that
C26_Witness ==
    \E r \in Requests :
        /\ Succeeded(r, "edit")
        /\ \E i \in 1..Len(prompt_sessions) :
            /\ prompt_sessions[i].id = body[r].session_id
            /\ prompt_sessions[i].history =
                 JSONstringify(<< userMessage(body[r]), modelMessage(PriorResponse) >>)
        /\ Len(image_versions) > PriorEdits + 1

\* user, model, user, model, ...: an even number of turns, none of another role
Alternates(history) ==
    /\ Len(history) % 2 = 0
    /\ \A k \in 1..Len(history) :
        history[k].role = (IF k % 2 = 1 THEN "user" ELSE "model")

\* the history is what is left of the full one after whole pairs went
PairsEvicted(history, full) ==
    \E d \in 0..(Len(full) \div 2) :
        history = SubSeq(full, 2 * d + 1, Len(full))

\* C29: every stored Session history is an even number of turns that
\* alternate user, model from a user turn on, with no system turn, also when
\* edits of one Session overlap and after an unparseable history; what a
\* save stores is at most 20 turns, the read history and the two new turns
\* less whole pairs from the front.
C29_HistoryAlternates ==
    /\ [](\A i \in 1..Len(prompt_sessions) :
            /\ Alternates(parseHistory(prompt_sessions[i].history))
            /\ Len(parseHistory(prompt_sessions[i].history)) <= 20)
    /\ [][\A r \in Requests :
            (pc[r] = "e_saveHistory" /\ pc'[r] = "done")
            => PairsEvicted(StoredHistory(session[r].id)',
                            parseHistory(session[r].history)
                              \o << userMessage(body[r]), modelMessage(aiResponse[r]) >>)]_vars

\* three edits asking for the patio view were made on the session that had
\* 18 turns, none lost: the history is the newest 20 of the 24 turns
C29_Witness ==
    /\ \A r \in Requests : Succeeded(r, "edit") /\ body[r].edit_prompt = "Patio view"
    /\ \E i \in 1..Len(prompt_sessions) :
        LET h == parseHistory(prompt_sessions[i].history) IN
        /\ Len(h) = 20
        /\ \A k \in {15, 17, 19} : h[k] = userMessage(body[1])
        /\ h[13].parts # userMessage(body[1]).parts

\* the turns of the successful edits on this session among requests 1..n, in
\* the order of the requests; with one request at a time that is the order in
\* which they completed
RECURSIVE TurnsThrough(_, _)
TurnsThrough(n, sid) ==
    IF n = 0 THEN << >>
    ELSE TurnsThrough(n - 1, sid)
         \o (IF Succeeded(n, "edit")
                /\ VersionRowOf(response[n].version_id).chat_id = sid
             THEN << userMessage(body[n]), modelMessage(PriorResponse) >>
             ELSE << >>)

\* C30: the history belongs to the Session, not to a branch: with edits made
\* one after the other on different branches of one Session, the stored
\* history is the turns of all of them in the order they completed, and the
\* context an edit sends to the oracle holds the turns of the edits made on
\* sibling branches before it.
C30_HistoryPerSession ==
    /\ \A i \in 1..Len(prompt_sessions) :
        parseHistory(prompt_sessions[i].history)
          = TurnsThrough(Cardinality(Requests), prompt_sessions[i].id)
    /\ \A r \in Requests :
        (body[r].route = "edit" /\ pc[r] = "e_generate")
        => /\ messagesOf(session[r], body[r])
                = TurnsThrough(r - 1, session[r].id) \o << userMessage(body[r]) >>
           /\ \A e \in Requests :
                ( /\ Succeeded(e, "edit")
                  /\ body[e].previous_version_id = body[r].previous_version_id )
                => userMessage(body[e]) \in Range(messagesOf(session[r], body[r]))

\* two edits of the root with different instructions have been made and the
\* history holds the turns of both; a third edit of the root is about to call
\* the oracle with those four turns and its own
C30_Witness ==
    \E e1, e2, e3 \in Requests :
        /\ e1 < e2 /\ Succeeded(e1, "edit") /\ Succeeded(e2, "edit")
        /\ body[e1].previous_version_id \in RootIds
        /\ body[e2].previous_version_id = body[e1].previous_version_id
        /\ body[e1].edit_prompt # body[e2].edit_prompt
        /\ pc[e3] = "e_generate"
        /\ body[e3].previous_version_id = body[e1].previous_version_id
        /\ StoredHistory(session[e3].id)
             = << userMessage(body[e1]), modelMessage(PriorResponse),
                  userMessage(body[e2]), modelMessage(PriorResponse) >>
        /\ Len(messagesOf(session[e3], body[e3])) = 5

\* a structured edit request that passed the schema
Structured(r) == body[r].route = "/edit" /\ body[r].json /\ body[r].valid

\* the photo operations this request has completed so far, the ids it has
\* collected and its changelog: from its locals, or from its response
PhotosOf(r) ==
    IF pc[r] = "done" THEN response[r].result.photos ELSE loop[r].photos
NewImageIdsOf(r) ==
    IF pc[r] = "done" THEN response[r].result.versioning.new_image_ids
    ELSE loop[r].newImageIds
ChangelogOf(r) ==
    IF pc[r] = "done" THEN response[r].result.versioning.changelog
    ELSE loop[r].changelog

\* the entries of the changelog that photo operations made
PhotoEntries(r) ==
    SubSeq(ChangelogOf(r), Len(body[r].floor_plan_ops) + 1, Len(ChangelogOf(r)))

\* the artifact is stored with this parent, op_seq, kind and variant
StoredAs(id, parentId, opSeq, kind, variant) ==
    id \in DOMAIN IMAGES
    => /\ IMAGES[id].metadata.parent_id = parentId
       /\ IMAGES[id].metadata.op_seq = opSeq
       /\ IMAGES[id].metadata.kind = kind
       /\ IMAGES[id].metadata.variant = variant

\* C31: the photo operations of a structured edit form a chain in request
\* order: the first completed one has the request's current_image_id as
\* parent, each later one the preview id of the completed one before it;
\* the plan uploads carry op_seq 1 and the k-th completed operation carries
\* op_seq k+1 on its preview and on its archival upload; an operation that
\* is skipped or blocked moves neither the chain nor op_seq.
C31_PhotoOpsChain ==
    /\ [](\A r \in Requests :
            (Structured(r) /\ pc[r] \in {"s_op", "s_preview", "s_archival", "done"})
            => LET P == PhotosOf(r)
                   N == NewImageIdsOf(r)
                   D == SelectSeq(PhotoEntries(r), LAMBDA e : e.status = "done")
               IN /\ Len(N) = 2 + 2 * Len(P)
                  /\ StoredAs(N[1], body[r].current_image_id, 1, "plan", "preview")
                  /\ StoredAs(N[2], body[r].current_image_id, 1, "plan", "archival")
                  /\ \A k \in 1..Len(P) :
                        /\ P[k].before_image_id =
                              (IF k = 1 THEN body[r].current_image_id
                               ELSE P[k - 1].after_image_id)
                        /\ P[k].after_image_id = N[2 * k + 1]
                        /\ P[k].archival_image_id = N[2 * k + 2]
                        /\ StoredAs(P[k].after_image_id, P[k].before_image_id,
                                    k + 1, "photo", "preview")
                        /\ StoredAs(P[k].archival_image_id, P[k].before_image_id,
                                    k + 1, "photo", "archival")
                  /\ Len(D) = Len(P)
                  /\ \A k \in 1..Len(P) : D[k].angle_id = P[k].angle
                  /\ \A k \in 1..Len(PhotoEntries(r)) :
                        PhotoEntries(r)[k].op = body[r].photo_ops[k].op
                  /\ pc[r] = "done" => Len(PhotoEntries(r)) = Len(body[r].photo_ops)
                  /\ pc[r] # "done"
                        => /\ loop[r].opSeq =
                                Len(P) + 1 + (IF pc[r] = "s_op" THEN 0 ELSE 1)
                           /\ loop[r].currentId =
                                (IF Len(P) = 0 THEN body[r].current_image_id
                                 ELSE P[Len(P)].after_image_id))
    /\ [][\A r \in Requests :
            (pc[r] = "s_op" /\ pc'[r] = "s_op" /\ loop'[r] # loop[r])
            => /\ loop'[r].opSeq = loop[r].opSeq
               /\ loop'[r].currentId = loop[r].currentId
               /\ loop'[r].photos = loop[r].photos
               /\ loop'[r].newImageIds = loop[r].newImageIds
               /\ loop'[r].next = loop[r].next + 1
               /\ Len(loop'[r].changelog) = Len(loop[r].changelog) + 1
               /\ loop'[r].changelog[Len(loop'[r].changelog)].status
                    \in {"skipped", "blocked"}
               /\ IMAGES' = IMAGES]_vars

\* a request rendered an angle of a stored image, skipped an operation it
\* does not know, and then edited the render: two photos, the second made
\* from the first, stored with op_seq 3
C31_Witness ==
    \E r \in Requests :
        /\ Structured(r) /\ pc[r] = "done"
        /\ body[r].current_image_id \in DOMAIN IMAGES
        /\ Len(body[r].photo_ops) = 3
        /\ body[r].photo_ops[1].op = "render_angle"
        /\ body[r].photo_ops[2].op = "compare_with"
        /\ body[r].photo_ops[3].op = "local_edit"
        /\ LET P == response[r].result.photos IN
            /\ Len(P) = 2
            /\ P[2].before_image_id = P[1].after_image_id
            /\ P[2].after_image_id \in DOMAIN IMAGES
            /\ IMAGES[P[2].after_image_id].metadata.op_seq = 3
            /\ IMAGES[P[2].after_image_id].metadata.parent_id = P[1].after_image_id

\* C32: every image id a structured edit reports, in new_image_ids and as
\* after_image_id or archival_image_id of a photo, is that of an artifact
\* written to the image store, and so is the parent of every photo operation
\* that went on to its uploads.
C32_ReportedIdsAreStored ==
    \A r \in Requests :
        Structured(r)
        => /\ pc[r] = "done"
                => /\ Range(response[r].result.versioning.new_image_ids)
                        \subseteq DOMAIN IMAGES
                   /\ \A k \in 1..Len(response[r].result.photos) :
                        /\ response[r].result.photos[k].after_image_id \in DOMAIN IMAGES
                        /\ response[r].result.photos[k].archival_image_id \in DOMAIN IMAGES
           /\ pc[r] \in {"s_preview", "s_archival"} => loop[r].beforeId \in DOMAIN IMAGES

====
